---- MODULE Spec2Model ----
(***************************************************************************)
(* State-machine model of the DeFi yield finder: the tiered cache          *)
(* (InMemoryCache, RedisCache, HybridCache of cache.py), the sliding-window *)
(* rate limiter and the fetcher (defi_yield_finder.py), and the safety      *)
(* scorer.  Time is the value time.time() returns, in whole seconds; it is  *)
(* constant during one call and advances between calls.  APY values are     *)
(* floats in the program and are counted here in tenths of a percent.       *)
(***************************************************************************)
EXTENDS Integers, Sequences, FiniteSets, TLC

VARIABLES
    now,            \* time.time()
    memory_cache,   \* HybridCache.memory_cache: [cache, last_cleanup]
    redis_cache,    \* HybridCache.redis_cache: "none", "enabled" or "disabled"
    redis,          \* the keys held by the Redis server under the prefix
    lastOp,         \* the last call made on the HybridCache and what it returned
    opCount,        \* number of calls made on the HybridCache so far
    hist,           \* history: per key, the last set, delete or clear that touched it
    memW,           \* history: per key, the last InMemoryCache.set not yet undone
                    \* (clean: what the HybridCache.set that made it returned)
    config,         \* config.config, the DeFiConfig object every finder shares
    request_times,  \* DeFiYieldFinder._request_times
    upstream_requests, \* number of GET requests sent to the pools endpoint
    admitted,       \* history: the times of the rate limiter calls that returned True
    lastCall,       \* the last call made on the finder and what it did
    callCount,      \* number of calls made on the finder so far
    written,        \* history: the last fetch that stored its list in the cache
    lastScore,      \* the last call of calculate_safety_score and what it returned
    lastResult,     \* the last call of get_safe_base_yields[_async] and its result
    threads         \* per thread inside _check_rate_limit: where it is, its locals

cacheVars == <<memory_cache, redis_cache, redis>>
cacheHist == <<lastOp, opCount, hist, memW>>
finderVars == <<config, request_times, upstream_requests, admitted, lastCall,
                callCount, written, lastScore, lastResult, threads>>
vars == <<now, cacheVars, cacheHist, finderVars>>

----------------------------------------------------------------------------
(* Bounds of the model *)

\* number of calls made on the cache in one behaviour of SpecCache
MaxCacheOps == 3
\* number of calls made on the finder in one behaviour of Spec
MaxCalls == 3
\* API_MAX_REQUESTS_PER_HOUR as set by custom_config (100 by default)
MaxRequestsPerHour == 2

----------------------------------------------------------------------------
(* Time *)

\* the instants at which calls are made: both sides of every period of the
\* program (60 s back-fill, 300 s local cap and cleanup interval, 3600 s)
TimePoints == {0, 1, 60, 300, 301, 3599, 3600, 3601}

----------------------------------------------------------------------------
(* JSON data: the items of an upstream record *)

Num(n) == [k |-> "num", n |-> n, s |-> ""]
Str(s) == [k |-> "str", n |-> 0, s |-> s]
Null == [k |-> "null", n |-> 0, s |-> ""]
Missing == [k |-> "missing", n |-> 0, s |-> ""]

\* dict.get(key, default)
DictGet(item, default) == IF item.k = "missing" THEN default ELSE item

\* a lower() that returns its argument as it is
LowerMutantKeepsCase(s) == s

\* str.lower() on the names the model uses
Lower(s) ==
    CASE s = "Base" -> "base"
      [] s = "BASE" -> "base"
      [] s = "Ethereum" -> "ethereum"
      [] s = "Aerodrome" -> "aerodrome"
      [] s = "AERODROME" -> "aerodrome"
      [] s = "Uniswap" -> "uniswap"
      [] s = "Compound" -> "compound"
      [] s = "Unknown" -> "unknown"
      [] OTHER -> s

----------------------------------------------------------------------------
(* Cache keys and values *)

CACHE_KEY == "base_yields_Base"
Keys == {CACHE_KEY, "test_key"}

RawRecord(chain, project, symbol, tvl, apy, id) ==
    [chain |-> chain, project |-> project, symbol |-> symbol,
     tvlUsd |-> tvl, apy |-> apy, pool |-> id,
     apyBase |-> Null, apyReward |-> Missing]

RecAero == RawRecord(Str("Base"), Str("Aerodrome"), Str("USDC-AERO"),
                     Num(150000000), Num(255), Str("pool-1"))
RecComp == RawRecord(Str("base"), Str("Compound"), Str("COMP-USDC"),
                     Num(25000000), Num(187), Str("pool-4"))

\* the values the cache is given in SpecCache
CacheValues == {<<RecAero>>, <<RecAero, RecComp>>}

\* json.dumps: the text stored in Redis
JsonDumps(v) == [json |-> v]
\* json.loads of a text json.dumps wrote: lists, dicts, strings, numbers and
\* null come back as they were
JsonLoads(text) == text.json

----------------------------------------------------------------------------
(* InMemoryCache *)

NoEntry == [present |-> FALSE, value |-> <<>>, expires_at |-> 0, created_at |-> 0]
Entry(v, exp, t) == [present |-> TRUE, value |-> v, expires_at |-> exp, created_at |-> t]

Absent == [hit |-> FALSE, value |-> <<>>]
Hit(v) == [hit |-> TRUE, value |-> v]

cleanup_interval == 300

MemInit(t) == [cache |-> [k \in Keys |-> NoEntry], last_cleanup |-> t]

\* InMemoryCache._cleanup_expired
CleanupExpired(mc, t) ==
    IF t - mc.last_cleanup > cleanup_interval
    THEN [cache |-> [k \in Keys |->
                        IF mc.cache[k].present /\ t > mc.cache[k].expires_at
                        THEN NoEntry ELSE mc.cache[k]],
          last_cleanup |-> t]
    ELSE mc

\* InMemoryCache.get: the value returned and the cache afterwards
MemGetMutantNoExpiry(mc, key, t) ==
    LET c == CleanupExpired(mc, t)
    IN  IF c.cache[key].present
        THEN [ret |-> Hit(c.cache[key].value), mc |-> c]
        ELSE [ret |-> Absent, mc |-> c]

MemGet(mc, key, t) ==
    LET c == CleanupExpired(mc, t)
    IN  IF c.cache[key].present
        THEN IF t < c.cache[key].expires_at
             THEN [ret |-> Hit(c.cache[key].value), mc |-> c]
             ELSE [ret |-> Absent,
                   mc |-> [c EXCEPT !.cache[key] = NoEntry]]
        ELSE [ret |-> Absent, mc |-> c]

\* InMemoryCache.set
MemSet(mc, key, value, ttl, t) ==
    [ret |-> TRUE, mc |-> [mc EXCEPT !.cache[key] = Entry(value, t + ttl, t)]]

\* InMemoryCache.delete
MemDelete(mc, key) ==
    IF mc.cache[key].present
    THEN [ret |-> TRUE, mc |-> [mc EXCEPT !.cache[key] = NoEntry]]
    ELSE [ret |-> FALSE, mc |-> mc]

\* InMemoryCache.clear
MemClear(mc) ==
    [ret |-> TRUE, mc |-> [mc EXCEPT !.cache = [k \in Keys |-> NoEntry]]]

----------------------------------------------------------------------------
(* RedisCache.  The server is outside the program: a call on it either      *)
(* succeeds (ok) or raises, and a key the server holds is gone once its     *)
(* time to live has passed.                                                 *)

NoRedisEntry == [present |-> FALSE, text |-> JsonDumps(<<>>), expires_at |-> 0]
RedisEntry(text, exp) == [present |-> TRUE, text |-> text, expires_at |-> exp]

RedisHolds(store, key, t) == store[key].present /\ t < store[key].expires_at

\* the server drops the keys whose time to live has passed
RedisExpire(store, t) ==
    [k \in Keys |-> IF RedisHolds(store, k, t) THEN store[k] ELSE NoRedisEntry]

\* RedisCache.get that answers from the key it holds though the call failed
RedisGetMutantServesOnFailure(store, enabled, key, t, ok) ==
    IF ~enabled THEN Absent
    ELSE IF RedisHolds(store, key, t) THEN Hit(JsonLoads(store[key].text))
    ELSE Absent

\* RedisCache.get
RedisGet(store, enabled, key, t, ok) ==
    IF ~enabled THEN Absent
    ELSE IF ~ok THEN Absent
    ELSE IF RedisHolds(store, key, t) THEN Hit(JsonLoads(store[key].text))
    ELSE Absent

\* RedisCache.set; SETEX refuses a time to live that is not positive
RedisSet(store, enabled, key, value, ttl, t, ok) ==
    IF ~enabled THEN [ret |-> FALSE, store |-> store]
    ELSE IF ~ok \/ ttl <= 0 THEN [ret |-> FALSE, store |-> store]
    ELSE [ret |-> TRUE,
          store |-> [store EXCEPT ![key] = RedisEntry(JsonDumps(value), t + ttl)]]

\* RedisCache.delete
RedisDelete(store, enabled, key, t, ok) ==
    IF ~enabled THEN [ret |-> FALSE, store |-> store]
    ELSE IF ~ok THEN [ret |-> FALSE, store |-> store]
    ELSE [ret |-> RedisHolds(store, key, t),
          store |-> [store EXCEPT ![key] = NoRedisEntry]]

\* RedisCache.clear
RedisClear(store, enabled, ok) ==
    IF ~enabled THEN [ret |-> FALSE, store |-> store]
    ELSE IF ~ok THEN [ret |-> FALSE, store |-> store]
    ELSE [ret |-> TRUE, store |-> [k \in Keys |-> NoRedisEntry]]

----------------------------------------------------------------------------
(* HybridCache *)

\* self.redis_cache and self.redis_cache.enabled
RedisUsed(mode) == mode = "enabled"
\* RedisCache.enabled
RedisEnabled(mode) == mode = "enabled"

\* a get that returns the remote value and leaves the local tier as it is
HybridGetMutantNoBackfill(mc, store, mode, key, t, ok) ==
    LET g == MemGet(mc, key, t)
        r == RedisGet(store, RedisEnabled(mode), key, t, ok)
    IN  IF g.ret.hit
        THEN [ret |-> g.ret, local |-> g.ret, remote_queried |-> FALSE, mc |-> g.mc]
        ELSE IF RedisUsed(mode) /\ r.hit
        THEN [ret |-> r, local |-> g.ret, remote_queried |-> TRUE, mc |-> g.mc]
        ELSE [ret |-> Absent, local |-> g.ret, remote_queried |-> RedisUsed(mode),
              mc |-> g.mc]

\* HybridCache.get: the value returned, the local tier's own answer, whether
\* the remote tier was asked, and the local tier afterwards
HybridGet(mc, store, mode, key, t, ok) ==
    LET g == MemGet(mc, key, t)
        r == RedisGet(store, RedisEnabled(mode), key, t, ok)
    IN  IF g.ret.hit
        THEN [ret |-> g.ret, local |-> g.ret, remote_queried |-> FALSE, mc |-> g.mc]
        ELSE IF RedisUsed(mode) /\ r.hit
        THEN [ret |-> r, local |-> g.ret, remote_queried |-> TRUE,
              mc |-> MemSet(g.mc, key, r.value, 60, t).mc]
        ELSE [ret |-> Absent, local |-> g.ret, remote_queried |-> RedisUsed(mode),
              mc |-> g.mc]

Min(a, b) == IF a <= b THEN a ELSE b

\* a set that returns what the local write returned
HybridSetMutantLocalFlag(mc, store, mode, key, value, ttl, t, ok) ==
    LET m == MemSet(mc, key, value, Min(ttl, 300), t)
        r == RedisSet(store, RedisEnabled(mode), key, value, ttl, t, ok)
    IN  IF RedisUsed(mode)
        THEN [ret |-> m.ret, mc |-> m.mc, store |-> r.store]
        ELSE [ret |-> m.ret, mc |-> m.mc, store |-> store]

\* a set that gives the local entry the whole TTL
HybridSetMutantNoCap(mc, store, mode, key, value, ttl, t, ok) ==
    LET m == MemSet(mc, key, value, ttl, t)
        r == RedisSet(store, RedisEnabled(mode), key, value, ttl, t, ok)
    IN  IF RedisUsed(mode)
        THEN [ret |-> m.ret /\ r.ret, mc |-> m.mc, store |-> r.store]
        ELSE [ret |-> m.ret, mc |-> m.mc, store |-> store]

\* HybridCache.set
HybridSet(mc, store, mode, key, value, ttl, t, ok) ==
    LET m == MemSet(mc, key, value, Min(ttl, 300), t)
        r == RedisSet(store, RedisEnabled(mode), key, value, ttl, t, ok)
    IN  IF RedisUsed(mode)
        THEN [ret |-> m.ret /\ r.ret, mc |-> m.mc, store |-> r.store]
        ELSE [ret |-> m.ret, mc |-> m.mc, store |-> store]

\* HybridCache.delete
HybridDeleteMutantShortCircuit(mc, store, mode, key, t, ok) ==
    LET m == MemDelete(mc, key)
        r == RedisDelete(store, RedisEnabled(mode), key, t, ok)
    IN  IF RedisUsed(mode) /\ m.ret
        THEN [ret |-> m.ret /\ r.ret, mc |-> m.mc, store |-> r.store]
        ELSE [ret |-> m.ret, mc |-> m.mc, store |-> store]

\* HybridCache.delete that reports success when either tier removed the key
HybridDeleteMutantEitherTier(mc, store, mode, key, t, ok) ==
    LET m == MemDelete(mc, key)
        r == RedisDelete(store, RedisEnabled(mode), key, t, ok)
    IN  IF RedisUsed(mode)
        THEN [ret |-> m.ret \/ r.ret, mc |-> m.mc, store |-> r.store]
        ELSE [ret |-> m.ret, mc |-> m.mc, store |-> store]

HybridDelete(mc, store, mode, key, t, ok) ==
    LET m == MemDelete(mc, key)
        r == RedisDelete(store, RedisEnabled(mode), key, t, ok)
    IN  IF RedisUsed(mode)
        THEN [ret |-> m.ret /\ r.ret, mc |-> m.mc, store |-> r.store]
        ELSE [ret |-> m.ret, mc |-> m.mc, store |-> store]

\* HybridCache.clear
HybridClear(mc, store, mode, ok) ==
    LET m == MemClear(mc)
        r == RedisClear(store, RedisEnabled(mode), ok)
    IN  IF RedisUsed(mode)
        THEN [ret |-> m.ret /\ r.ret, mc |-> m.mc, store |-> r.store]
        ELSE [ret |-> m.ret, mc |-> m.mc, store |-> store]

----------------------------------------------------------------------------
(* DeFiConfig and the module-level object config = DeFiConfig() *)

\* float('inf')
Inf == 2147483647

\* one percent of APY, in the model's unit (tenths of a percent)
Pct == 10

DefaultConfig ==
    [API_MAX_REQUESTS_PER_HOUR |-> 100,
     CACHE_DURATION |-> 3600,
     CACHE_ENABLED |-> TRUE,
     MIN_SAFETY_SCORE |-> 60,
     MAX_RESULTS |-> 20,
     TARGET_CHAIN |-> "Base",
     TVL_THRESHOLDS |-> << [min |-> 100000000, points |-> 30],
                           [min |-> 50000000, points |-> 20],
                           [min |-> 10000000, points |-> 10],
                           [min |-> 0, points |-> 0] >>,
     PROTOCOL_TIERS |-> [tier1 |-> {"aerodrome", "uniswap", "aave", "moonwell"},
                         tier2 |-> {"compound", "curve", "balancer", "sushiswap"},
                         tier3 |-> {}],
     PROTOCOL_SCORES |-> [tier1 |-> 25, tier2 |-> 20, tier3 |-> 10, unknown |-> 0],
     APY_THRESHOLDS |-> << [min |-> 5 * Pct, max |-> 30 * Pct, points |-> 20],
                           [min |-> 30 * Pct, max |-> 50 * Pct, points |-> 10],
                           [min |-> 50 * Pct, max |-> 100 * Pct, points |-> 5],
                           [min |-> 100 * Pct, max |-> Inf, points |-> 0] >>,
     SAFETY_SCORE_THRESHOLDS |-> [very_safe |-> 80, safe |-> 60, moderate |-> 40,
                                  risky |-> 20],
     WARNING_MESSAGES |-> << "High yield pools carry impermanent loss risk",
                             "Always verify smart contract audits",
                             "Past performance does not guarantee future results",
                             "DeFi investments carry smart contract risk" >>,
     REDIS_ENABLED |-> FALSE]

\* DeFiYieldFinder.__init__: setattr(self.config, key, value) for every key of
\* custom_config that the configuration has
ApplyCustomConfig(cfg, custom) ==
    [key \in DOMAIN cfg |-> IF key \in DOMAIN custom THEN custom[key] ELSE cfg[key]]

NoCall == [op |-> "none", raised |-> FALSE, pools |-> <<>>, cache_hit |-> FALSE,
           entry |-> <<>>, remote_ok |-> TRUE, limiter_called |-> FALSE,
           limiter_ret |-> FALSE, upstream_called |-> FALSE, wrote |-> FALSE,
           prior_store |-> -1, request_failed |-> FALSE]

NotWritten == [stored |-> FALSE, at |-> -1, value |-> <<>>, returned |-> <<>>]

\* SafetyScoreBreakdown(): every score 0.0
NoBreakdown == [tvl_score |-> 0, protocol_score |-> 0, yield_score |-> 0,
                stability_score |-> 0, liquidity_score |-> 0, total_score |-> 0]

\* the scoring tables of a configuration
PolicyTables(cfg) ==
    [TVL_THRESHOLDS |-> cfg.TVL_THRESHOLDS,
     PROTOCOL_TIERS |-> cfg.PROTOCOL_TIERS,
     PROTOCOL_SCORES |-> cfg.PROTOCOL_SCORES,
     APY_THRESHOLDS |-> cfg.APY_THRESHOLDS]

NoScore == [called |-> FALSE, raised |-> FALSE, pool |-> <<>>, pool_after |-> <<>>,
            breakdown |-> NoBreakdown, tables |-> PolicyTables(DefaultConfig),
            repeated |-> FALSE, prev |-> NoBreakdown]

NoResult == [op |-> "none", arg |-> [given |-> FALSE, value |-> 0],
             fetched |-> <<>>, result |-> <<>>]

\* the finder's own state before any call on it
\* the threads that share one finder, and a thread outside _check_rate_limit
Threads == {"t1", "t2"}
ThreadIdle == [pc |-> "idle", current_time |-> 0, kept |-> <<>>]
NoThreads == [th \in Threads |-> ThreadIdle]

FinderIdle ==
    /\ config = DefaultConfig
    /\ request_times = <<>>
    /\ upstream_requests = 0
    /\ admitted = <<>>
    /\ lastCall = NoCall
    /\ callCount = 0
    /\ written = NotWritten
    /\ lastScore = NoScore
    /\ lastResult = NoResult
    /\ threads = NoThreads

----------------------------------------------------------------------------
(* The cache used directly: set, get, delete and clear at any instant *)

TTLs == {0, 60, 3600}

\* whether the server call of this step succeeds; there is none without Redis
RemoteOutcomes(mode) == IF RedisUsed(mode) THEN BOOLEAN ELSE {TRUE}

NoOp == [op |-> "none", key |-> CACHE_KEY, ret |-> Absent,
         local |-> Absent, flag |-> FALSE, remote_ok |-> TRUE,
         pre_local |-> FALSE, pre_remote |-> FALSE, remote_queried |-> FALSE]

NoHist == [state |-> "none", t0 |-> 0, ttl |-> 0, value |-> <<>>, clean |-> TRUE]

\* the local tier holds an entry for the key, expired or not
LocalPresent(key) == memory_cache.cache[key].present
\* the remote tier holds the key
RemotePresent(key) == RedisHolds(redis, key, now)

CacheInit ==
    /\ now = 0
    /\ memory_cache = MemInit(0)
    /\ redis_cache \in {"none", "enabled", "disabled"}
    /\ redis = [k \in Keys |-> NoRedisEntry]
    /\ lastOp = NoOp
    /\ opCount = 0
    /\ hist = [k \in Keys |-> NoHist]
    /\ memW = [k \in Keys |-> NoHist]
    /\ FinderIdle

CacheSet(key, value, ttl) ==
    /\ opCount < MaxCacheOps
    /\ \E ok \in RemoteOutcomes(redis_cache) :
        \E s \in {HybridSet(memory_cache, redis, redis_cache, key, value, ttl, now, ok)} :
            /\ memory_cache' = s.mc
            /\ redis' = s.store
            /\ lastOp' = [NoOp EXCEPT !.op = "set", !.key = key,
                                      !.flag = s.ret, !.remote_ok = ok,
                                      !.pre_local = LocalPresent(key),
                                      !.pre_remote = RemotePresent(key)]
            /\ memW' = [memW EXCEPT ![key] =
                           [state |-> "set", t0 |-> now, ttl |-> Min(ttl, 300),
                            value |-> value, clean |-> s.ret]]
    /\ hist' = [hist EXCEPT ![key] =
                   [state |-> "set", t0 |-> now, ttl |-> ttl, value |-> value,
                    clean |-> TRUE]]
    /\ opCount' = opCount + 1
    /\ UNCHANGED <<now, redis_cache, finderVars>>

CacheGet(key) ==
    /\ opCount < MaxCacheOps
    /\ \E ok \in RemoteOutcomes(redis_cache) :
        \E g \in {HybridGet(memory_cache, redis, redis_cache, key, now, ok)} :
            /\ memory_cache' = g.mc
            /\ lastOp' = [NoOp EXCEPT !.op = "get", !.key = key,
                                      !.ret = g.ret, !.local = g.local,
                                      !.remote_ok = ok,
                                      !.remote_queried = g.remote_queried,
                                      !.pre_local = LocalPresent(key),
                                      !.pre_remote = RemotePresent(key)]
            /\ memW' = IF ~g.local.hit /\ g.ret.hit
                       THEN [memW EXCEPT ![key] =
                               [state |-> "set", t0 |-> now, ttl |-> 60,
                                value |-> g.ret.value, clean |-> TRUE]]
                       ELSE memW
    /\ opCount' = opCount + 1
    /\ UNCHANGED <<now, redis_cache, redis, hist, finderVars>>

CacheDelete(key) ==
    /\ opCount < MaxCacheOps
    /\ \E ok \in RemoteOutcomes(redis_cache) :
        \E d \in {HybridDelete(memory_cache, redis, redis_cache, key, now, ok)} :
            /\ memory_cache' = d.mc
            /\ redis' = d.store
            /\ lastOp' = [NoOp EXCEPT !.op = "delete", !.key = key,
                                      !.flag = d.ret, !.remote_ok = ok,
                                      !.pre_local = LocalPresent(key),
                                      !.pre_remote = RemotePresent(key)]
            /\ hist' = [hist EXCEPT ![key] = [NoHist EXCEPT !.state = "deleted",
                                                           !.clean = ok]]
    /\ memW' = [memW EXCEPT ![key] = NoHist]
    /\ opCount' = opCount + 1
    /\ UNCHANGED <<now, redis_cache, finderVars>>

CacheClear ==
    /\ opCount < MaxCacheOps
    /\ \E ok \in RemoteOutcomes(redis_cache) :
        \E c \in {HybridClear(memory_cache, redis, redis_cache, ok)} :
            /\ memory_cache' = c.mc
            /\ redis' = c.store
            /\ lastOp' = [NoOp EXCEPT !.op = "clear",
                                      !.flag = c.ret, !.remote_ok = ok]
            /\ hist' = [k \in Keys |->
                           IF hist[k].state = "none" THEN hist[k]
                           ELSE [NoHist EXCEPT !.state = "deleted", !.clean = ok]]
    /\ memW' = [k \in Keys |-> NoHist]
    /\ opCount' = opCount + 1
    /\ UNCHANGED <<now, redis_cache, finderVars>>

\* time passes between two calls; lastOp describes a call only until then
CacheTick ==
    /\ \E t \in TimePoints : t > now /\ now' = t
    /\ redis' = RedisExpire(redis, now')
    /\ lastOp' = NoOp
    /\ UNCHANGED <<memory_cache, redis_cache, opCount, hist, memW, finderVars>>

CacheNext ==
    \/ \E v \in CacheValues, ttl \in TTLs : CacheSet(CACHE_KEY, v, ttl)
    \/ CacheSet("test_key", <<RecAero>>, 3600)
    \/ \E k \in Keys : CacheGet(k)
    \/ \E k \in Keys : CacheDelete(k)
    \/ CacheClear
    \/ CacheTick

SpecCache == CacheInit /\ [][CacheNext]_vars

----------------------------------------------------------------------------
(* Pool.from_api_data *)

\* float(x): a number converts, None raises TypeError, a name raises ValueError
FloatOf(item) ==
    IF item.k = "num" THEN [raised |-> FALSE, val |-> item.n]
    ELSE [raised |-> TRUE, val |-> 0]

\* x or 0
OrZero(item) ==
    IF item.k = "null" \/ (item.k = "num" /\ item.n = 0) \/ (item.k = "str" /\ item.s = "")
    THEN Num(0) ELSE item

\* Pool.from_api_data: the Pool built, or raised when a conversion raises.
\* The timestamp field (the time of the conversion) is left out.
FromApiData(data) ==
    LET apy == FloatOf(DictGet(data.apy, Num(0)))
        tvl == FloatOf(DictGet(data.tvlUsd, Num(0)))
        base == FloatOf(OrZero(DictGet(data.apyBase, Num(0))))
        reward == FloatOf(OrZero(DictGet(data.apyReward, Num(0))))
    IN  [raised |-> apy.raised \/ tvl.raised \/ base.raised \/ reward.raised,
         pool |-> [symbol |-> DictGet(data.symbol, Str("")),
                   project |-> DictGet(data.project, Str("")),
                   apy |-> apy.val,
                   tvl_usd |-> tvl.val,
                   chain |-> DictGet(data.chain, Str("")),
                   pool_id |-> DictGet(data.pool, Str("")),
                   safety_score |-> 0,
                   risk_level |-> "Medium",
                   base_apy |-> base.val,
                   reward_apy |-> reward.val]]

\* [Pool.from_api_data(p) for p in data]
FromApiList(data) ==
    [raised |-> \E i \in DOMAIN data : FromApiData(data[i]).raised,
     pools |-> [i \in DOMAIN data |-> FromApiData(data[i]).pool]]

----------------------------------------------------------------------------
(* DeFiYieldFinder: the rate limiter and the fetcher *)

\* DeFiYieldFinder._check_rate_limit: the flag returned and _request_times after
CheckRateLimitMutantOffByOne(times, t, max_per_hour) ==
    LET kept == SelectSeq(times, LAMBDA x : x > t - 3600)
    IN  IF Len(kept) > max_per_hour
        THEN [ret |-> FALSE, times |-> kept]
        ELSE [ret |-> TRUE, times |-> Append(kept, t)]

\* a limiter that records the time of a refused call too
CheckRateLimitMutantRecordsRefusal(times, t, max_per_hour) ==
    LET kept == SelectSeq(times, LAMBDA x : x > t - 3600)
    IN  IF Len(kept) >= max_per_hour
        THEN [ret |-> FALSE, times |-> Append(kept, t)]
        ELSE [ret |-> TRUE, times |-> Append(kept, t)]

CheckRateLimit(times, t, max_per_hour) ==
    LET kept == SelectSeq(times, LAMBDA x : x > t - 3600)
    IN  IF Len(kept) >= max_per_hour
        THEN [ret |-> FALSE, times |-> kept]
        ELSE [ret |-> TRUE, times |-> Append(kept, t)]

\* upstream records
RecEth == RawRecord(Str("Ethereum"), Str("Uniswap"), Str("ETH-USDC"),
                    Num(75000000), Num(423), Str("pool-2"))
RecNullApy == RawRecord(Str("Base"), Str("Unknown"), Str("SCAM-TOKEN"),
                        Num(500000), Null, Str("pool-3"))
RecNullChain == RawRecord(Null, Str("Uniswap"), Str("ETH-USDC"),
                          Num(75000000), Num(423), Str("pool-2"))
RecSparse == RawRecord(Str("BASE"), Missing, Missing, Missing, Missing, Missing)
RecNegApy == RawRecord(Str("Base"), Str("Unknown"), Str("DEBT-USDC"),
                       Num(500000), Num(-10), Str("pool-6"))

\* what the GET request can come to: an exception of requests (a timeout, a
\* connection error, an error status from raise_for_status), a body that is
\* not JSON, or a JSON list of records
Failure(kind) == [kind |-> kind, body |-> <<>>]
Response(body) == [kind |-> "ok", body |-> body]
UpstreamOutcomes ==
    {Failure("timeout"), Failure("request_exception"), Failure("bad_body"),
     Response(<<RecEth>>),
     Response(<<RecAero, RecEth, RecComp>>),
     Response(<<RecSparse>>),
     Response(<<RecComp, RecNullApy>>),
     Response(<<RecAero, RecNullChain>>),
     Response(<<RecNegApy>>)}

\* pool.get("chain", "").lower() == TARGET_CHAIN.lower(), which raises
\* AttributeError on a chain that is null
ChainMatches(rec, chain) ==
    LET c == DictGet(rec.chain, Str(""))
    IN  c.k = "str" /\ Lower(c.s) = Lower(chain)

\* a filter that keeps the records of every chain
FilterChainMutantKeepsAll(body, chain) ==
    [raised |-> \E i \in DOMAIN body : DictGet(body[i].chain, Str("")).k # "str",
     pools |-> body]

\* the list comprehension of lines 78-81
FilterChain(body, chain) ==
    [raised |-> \E i \in DOMAIN body : DictGet(body[i].chain, Str("")).k # "str",
     pools |-> SelectSeq(body, LAMBDA rec : ChainMatches(rec, chain))]

\* what a fetch gives back to the action that models the call
FetchResult(raised, pools, mc, store, times, hit, entry, limiter, allowed, upstream, wrote) ==
    [raised |-> raised, pools |-> pools, mc |-> mc, store |-> store,
     times |-> times, cache_hit |-> hit, entry |-> entry,
     limiter_called |-> limiter, limiter_ret |-> allowed,
     upstream_called |-> upstream, wrote |-> wrote]

\* a fetch that takes its timestamp back when the request fails
FetchFromUpstreamMutantRefundsSlot(cfg, mc, store, mode, times, t, outcome, okSet) ==
    LET rl == CheckRateLimit(times, t, cfg.API_MAX_REQUESTS_PER_HOUR)
        base == FilterChain(outcome.body, cfg.TARGET_CHAIN)
        stores == cfg.CACHE_ENABLED /\ Len(base.pools) > 0
        set == HybridSet(mc, store, mode, CACHE_KEY, base.pools, cfg.CACHE_DURATION, t, okSet)
        built == FromApiList(base.pools)
    IN  IF ~rl.ret
        THEN FetchResult(FALSE, <<>>, mc, store, rl.times, FALSE, <<>>, TRUE, FALSE, FALSE, FALSE)
        ELSE IF outcome.kind # "ok" \/ base.raised
        THEN FetchResult(FALSE, <<>>, mc, store, SubSeq(rl.times, 1, Len(rl.times) - 1),
                         FALSE, <<>>, TRUE, TRUE, TRUE, FALSE)
        ELSE FetchResult(FALSE,
                         IF built.raised THEN <<>> ELSE built.pools,
                         IF stores THEN set.mc ELSE mc,
                         IF stores THEN set.store ELSE store,
                         rl.times, FALSE, <<>>, TRUE, TRUE, TRUE, stores)

\* a fetch that goes on to the upstream request when the limiter refuses
FetchFromUpstreamMutantIgnoresLimiter(cfg, mc, store, mode, times, t, outcome, okSet) ==
    LET rl == CheckRateLimit(times, t, cfg.API_MAX_REQUESTS_PER_HOUR)
        base == FilterChain(outcome.body, cfg.TARGET_CHAIN)
        stores == cfg.CACHE_ENABLED /\ Len(base.pools) > 0
        set == HybridSet(mc, store, mode, CACHE_KEY, base.pools, cfg.CACHE_DURATION, t, okSet)
        built == FromApiList(base.pools)
    IN  IF outcome.kind # "ok" \/ base.raised
        THEN FetchResult(FALSE, <<>>, mc, store, rl.times, FALSE, <<>>, TRUE, rl.ret, TRUE, FALSE)
        ELSE FetchResult(FALSE,
                         IF built.raised THEN <<>> ELSE built.pools,
                         IF stores THEN set.mc ELSE mc,
                         IF stores THEN set.store ELSE store,
                         rl.times, FALSE, <<>>, TRUE, rl.ret, TRUE, stores)

\* fetch_base_yields from the rate limiter on (lines 68-98); mc is the local
\* tier as the cache lookup left it
FetchFromUpstream(cfg, mc, store, mode, times, t, outcome, okSet) ==
    LET rl == CheckRateLimit(times, t, cfg.API_MAX_REQUESTS_PER_HOUR)
        base == FilterChain(outcome.body, cfg.TARGET_CHAIN)
        stores == cfg.CACHE_ENABLED /\ Len(base.pools) > 0
        set == HybridSet(mc, store, mode, CACHE_KEY, base.pools, cfg.CACHE_DURATION, t, okSet)
        built == FromApiList(base.pools)
    IN  IF ~rl.ret
        THEN FetchResult(FALSE, <<>>, mc, store, rl.times, FALSE, <<>>, TRUE, FALSE, FALSE, FALSE)
        ELSE IF outcome.kind # "ok" \/ base.raised
        THEN FetchResult(FALSE, <<>>, mc, store, rl.times, FALSE, <<>>, TRUE, TRUE, TRUE, FALSE)
        ELSE FetchResult(FALSE,
                         IF built.raised THEN <<>> ELSE built.pools,
                         IF stores THEN set.mc ELSE mc,
                         IF stores THEN set.store ELSE store,
                         rl.times, FALSE, <<>>, TRUE, TRUE, TRUE, stores)

\* DeFiYieldFinder.fetch_base_yields
FetchBaseYieldsMutantNoCacheLookup(cfg, mc, store, mode, times, t, outcome, okGet, okSet) ==
    FetchFromUpstream(cfg, mc, store, mode, times, t, outcome, okSet)

FetchBaseYields(cfg, mc, store, mode, times, t, outcome, okGet, okSet) ==
    LET g == HybridGet(mc, store, mode, CACHE_KEY, t, okGet)
        built == FromApiList(g.ret.value)
    IN  IF cfg.CACHE_ENABLED /\ g.ret.hit /\ Len(g.ret.value) > 0
        THEN FetchResult(built.raised, IF built.raised THEN <<>> ELSE built.pools,
                         g.mc, store, times, TRUE, g.ret.value,
                         FALSE, FALSE, FALSE, FALSE)
        ELSE FetchFromUpstream(cfg, IF cfg.CACHE_ENABLED THEN g.mc ELSE mc,
                               store, mode, times, t, outcome, okSet)

\* fetch_base_yields_async from the rate limiter on, with the limiter called
\* a second time before the request
FetchFromUpstreamAsyncMutantTwoLimiterCalls(cfg, mc, store, mode, times, t, outcome, okSet) ==
    LET first == CheckRateLimit(times, t, cfg.API_MAX_REQUESTS_PER_HOUR)
        rl == IF first.ret
              THEN CheckRateLimit(first.times, t, cfg.API_MAX_REQUESTS_PER_HOUR + 1)
              ELSE first
        base == FilterChain(outcome.body, cfg.TARGET_CHAIN)
        stores == cfg.CACHE_ENABLED /\ Len(base.pools) > 0
        set == HybridSet(mc, store, mode, CACHE_KEY, base.pools, cfg.CACHE_DURATION, t, okSet)
        built == FromApiList(base.pools)
    IN  IF ~rl.ret
        THEN FetchResult(FALSE, <<>>, mc, store, rl.times, FALSE, <<>>, TRUE, FALSE, FALSE, FALSE)
        ELSE IF outcome.kind # "ok" \/ base.raised
        THEN FetchResult(FALSE, <<>>, mc, store, rl.times, FALSE, <<>>, TRUE, TRUE, TRUE, FALSE)
        ELSE FetchResult(FALSE,
                         IF built.raised THEN <<>> ELSE built.pools,
                         IF stores THEN set.mc ELSE mc,
                         IF stores THEN set.store ELSE store,
                         rl.times, FALSE, <<>>, TRUE, TRUE, TRUE, stores)

\* fetch_base_yields_async from the rate limiter on (lines 109-138), with the
\* cache write left out
FetchFromUpstreamAsyncMutantNoStore(cfg, mc, store, mode, times, t, outcome, okSet) ==
    LET rl == CheckRateLimit(times, t, cfg.API_MAX_REQUESTS_PER_HOUR)
        base == FilterChain(outcome.body, cfg.TARGET_CHAIN)
        built == FromApiList(base.pools)
    IN  IF ~rl.ret
        THEN FetchResult(FALSE, <<>>, mc, store, rl.times, FALSE, <<>>, TRUE, FALSE, FALSE, FALSE)
        ELSE IF outcome.kind # "ok" \/ base.raised
        THEN FetchResult(FALSE, <<>>, mc, store, rl.times, FALSE, <<>>, TRUE, TRUE, TRUE, FALSE)
        ELSE FetchResult(FALSE, IF built.raised THEN <<>> ELSE built.pools,
                         mc, store, rl.times, FALSE, <<>>, TRUE, TRUE, TRUE, FALSE)

\* fetch_base_yields_async from the rate limiter on (lines 109-138): the
\* request of aiohttp raises asyncio.TimeoutError on a timeout and another
\* Exception on every other failure, and both handlers return []
FetchFromUpstreamAsync(cfg, mc, store, mode, times, t, outcome, okSet) ==
    LET rl == CheckRateLimit(times, t, cfg.API_MAX_REQUESTS_PER_HOUR)
        base == FilterChain(outcome.body, cfg.TARGET_CHAIN)
        stores == cfg.CACHE_ENABLED /\ Len(base.pools) > 0
        set == HybridSet(mc, store, mode, CACHE_KEY, base.pools, cfg.CACHE_DURATION, t, okSet)
        built == FromApiList(base.pools)
    IN  IF ~rl.ret
        THEN FetchResult(FALSE, <<>>, mc, store, rl.times, FALSE, <<>>, TRUE, FALSE, FALSE, FALSE)
        ELSE IF outcome.kind = "timeout"
        THEN FetchResult(FALSE, <<>>, mc, store, rl.times, FALSE, <<>>, TRUE, TRUE, TRUE, FALSE)
        ELSE IF outcome.kind # "ok" \/ base.raised
        THEN FetchResult(FALSE, <<>>, mc, store, rl.times, FALSE, <<>>, TRUE, TRUE, TRUE, FALSE)
        ELSE FetchResult(FALSE,
                         IF built.raised THEN <<>> ELSE built.pools,
                         IF stores THEN set.mc ELSE mc,
                         IF stores THEN set.store ELSE store,
                         rl.times, FALSE, <<>>, TRUE, TRUE, TRUE, stores)

\* DeFiYieldFinder.fetch_base_yields_async
FetchBaseYieldsAsync(cfg, mc, store, mode, times, t, outcome, okGet, okSet) ==
    LET g == HybridGet(mc, store, mode, CACHE_KEY, t, okGet)
        built == FromApiList(g.ret.value)
    IN  IF cfg.CACHE_ENABLED /\ g.ret.hit /\ Len(g.ret.value) > 0
        THEN FetchResult(built.raised, IF built.raised THEN <<>> ELSE built.pools,
                         g.mc, store, times, TRUE, g.ret.value,
                         FALSE, FALSE, FALSE, FALSE)
        ELSE FetchFromUpstreamAsync(cfg, IF cfg.CACHE_ENABLED THEN g.mc ELSE mc,
                                    store, mode, times, t, outcome, okSet)

----------------------------------------------------------------------------
(* One finder, used sequentially *)

\* DeFiYieldFinder(custom_config = {CACHE_ENABLED, API_MAX_REQUESTS_PER_HOUR,
\* REDIS_ENABLED [, REDIS_URL]})
Init ==
    /\ now = 0
    /\ \E enabled \in BOOLEAN, remote \in BOOLEAN :
        /\ config = ApplyCustomConfig(DefaultConfig,
                        [CACHE_ENABLED |-> enabled,
                         API_MAX_REQUESTS_PER_HOUR |-> MaxRequestsPerHour,
                         REDIS_ENABLED |-> remote])
        /\ redis_cache = IF remote THEN "enabled" ELSE "none"
    /\ memory_cache = MemInit(0)
    /\ redis = [k \in Keys |-> NoRedisEntry]
    /\ lastOp = NoOp
    /\ opCount = 0
    /\ hist = [k \in Keys |-> NoHist]
    /\ memW = [k \in Keys |-> NoHist]
    /\ request_times = <<>>
    /\ upstream_requests = 0
    /\ admitted = <<>>
    /\ lastCall = NoCall
    /\ callCount = 0
    /\ written = NotWritten
    /\ lastScore = NoScore
    /\ lastResult = NoResult
    /\ threads = NoThreads

\* a call of fetch_base_yields
Fetch ==
    /\ callCount < MaxCalls
    /\ \E outcome \in UpstreamOutcomes,
          okGet \in RemoteOutcomes(redis_cache), okSet \in RemoteOutcomes(redis_cache) :
        \E f \in {FetchBaseYields(config, memory_cache, redis, redis_cache,
                                  request_times, now, outcome, okGet, okSet)} :
            /\ memory_cache' = f.mc
            /\ redis' = f.store
            /\ request_times' = f.times
            /\ upstream_requests' = upstream_requests + (IF f.upstream_called THEN 1 ELSE 0)
            /\ admitted' = IF f.limiter_called /\ f.limiter_ret
                            THEN Append(admitted, now) ELSE admitted
            /\ lastCall' = [op |-> "fetch", raised |-> f.raised, pools |-> f.pools,
                            cache_hit |-> f.cache_hit, entry |-> f.entry,
                            remote_ok |-> okGet,
                            limiter_called |-> f.limiter_called,
                            limiter_ret |-> f.limiter_ret,
                            upstream_called |-> f.upstream_called,
                            wrote |-> f.wrote, prior_store |-> written.at,
                            request_failed |-> f.upstream_called /\ outcome.kind # "ok"]
            /\ written' = IF f.wrote
                           THEN [stored |-> TRUE, at |-> now,
                                 value |-> f.mc.cache[CACHE_KEY].value,
                                 returned |-> f.pools]
                           ELSE written
    /\ callCount' = callCount + 1
    /\ UNCHANGED <<now, redis_cache, cacheHist, config, lastScore, lastResult,
                   threads>>

\* a call of _check_rate_limit alone
RateLimitCall ==
    /\ callCount < MaxCalls
    /\ \E rl \in {CheckRateLimit(request_times, now, config.API_MAX_REQUESTS_PER_HOUR)} :
           /\ request_times' = rl.times
           /\ admitted' = IF rl.ret THEN Append(admitted, now) ELSE admitted
           /\ lastCall' = [NoCall EXCEPT !.op = "check_rate_limit",
                                         !.limiter_called = TRUE,
                                         !.limiter_ret = rl.ret]
    /\ callCount' = callCount + 1
    /\ UNCHANGED <<now, cacheVars, cacheHist, config, upstream_requests, written,
                   lastScore, lastResult, threads>>

\* time passes between two calls; lastCall describes a call only until then
Tick ==
    /\ \E t \in TimePoints : t > now /\ now' = t
    /\ redis' = RedisExpire(redis, now')
    /\ lastCall' = NoCall
    /\ UNCHANGED <<memory_cache, redis_cache, cacheHist, config, request_times,
                   upstream_requests, admitted, callCount, written, lastScore,
                   lastResult, threads>>

Next ==
    \/ Fetch
    \/ RateLimitCall
    \/ Tick

Spec == Init /\ [][Next]_vars

----------------------------------------------------------------------------
(* DeFiYieldFinder.calculate_safety_score *)

\* the points of the last accepted element of a table, not of the first
FirstMatchMutantLast(table, accepted) ==
    IF accepted = {} THEN 0
    ELSE table[CHOOSE i \in accepted : \A j \in accepted : i >= j].points

\* the points of the first element of a table, in its order, among those the
\* test accepts: the for ... if ...: ...; break loops; 0 when the loop ends
\* without a match
FirstMatch(table, accepted) ==
    IF accepted = {} THEN 0
    ELSE table[CHOOSE i \in accepted : \A j \in accepted : i <= j].points

\* a band that includes its upper limit
ApyInRangeMutantClosed(apy_range, apy) ==
    apy_range.min <= apy /\ apy <= apy_range.max

\* apy_range["min"] <= pool.apy < apy_range["max"]
ApyInRange(apy_range, apy) ==
    apy_range.min <= apy /\ apy < apy_range.max

\* SafetyScoreBreakdown.calculate_total with the liquidity score left out
calculate_total_MutantDropsLiquidity(b) ==
    [b EXCEPT !.total_score = b.tvl_score + b.protocol_score + b.yield_score
                              + b.stability_score]

\* SafetyScoreBreakdown.calculate_total
calculate_total(b) ==
    [b EXCEPT !.total_score = b.tvl_score + b.protocol_score + b.yield_score
                              + b.stability_score + b.liquidity_score]

\* calculate_safety_score: the breakdown returned and the pool as the call
\* leaves it; raised when pool.project has no lower() (it is not a string)
calculate_safety_score(cfg, pool) ==
    LET tvl_accepted == {i \in DOMAIN cfg.TVL_THRESHOLDS :
                                pool.tvl_usd >= cfg.TVL_THRESHOLDS[i].min}
        apy_accepted == {i \in DOMAIN cfg.APY_THRESHOLDS :
                                ApyInRange(cfg.APY_THRESHOLDS[i], pool.apy)}
        project_lower == Lower(pool.project.s)
        protocol_score ==
            IF project_lower \in cfg.PROTOCOL_TIERS.tier1 THEN cfg.PROTOCOL_SCORES.tier1
            ELSE IF project_lower \in cfg.PROTOCOL_TIERS.tier2 THEN cfg.PROTOCOL_SCORES.tier2
            ELSE IF project_lower \in cfg.PROTOCOL_TIERS.tier3 THEN cfg.PROTOCOL_SCORES.tier3
            ELSE cfg.PROTOCOL_SCORES.unknown
        stability_score ==
            IF pool.tvl_usd >= 50000000 THEN 15
            ELSE IF pool.tvl_usd >= 10000000 THEN 10
            ELSE 5
        liquidity_score ==
            IF pool.tvl_usd >= 100000000 THEN 10
            ELSE IF pool.tvl_usd >= 50000000 THEN 7
            ELSE 3
    IN  IF pool.project.k # "str"
        THEN [raised |-> TRUE, breakdown |-> NoBreakdown, pool |-> pool]
        ELSE [raised |-> FALSE,
              breakdown |-> calculate_total(
                  [tvl_score |-> FirstMatch(cfg.TVL_THRESHOLDS, tvl_accepted),
                   protocol_score |-> protocol_score,
                   yield_score |-> FirstMatch(cfg.APY_THRESHOLDS, apy_accepted),
                   stability_score |-> stability_score,
                   liquidity_score |-> liquidity_score,
                   total_score |-> 0]),
              pool |-> pool]

----------------------------------------------------------------------------
(* DeFiYieldFinder.get_safe_base_yields: scoring, filtering, ranking, summary *)

\* a mapping in which a score equal to a threshold falls in the level below
determine_risk_level_MutantStrict(cfg, safety_score) ==
    IF safety_score > cfg.SAFETY_SCORE_THRESHOLDS.very_safe THEN "Very Low"
    ELSE IF safety_score > cfg.SAFETY_SCORE_THRESHOLDS.safe THEN "Low"
    ELSE IF safety_score > cfg.SAFETY_SCORE_THRESHOLDS.moderate THEN "Medium"
    ELSE IF safety_score > cfg.SAFETY_SCORE_THRESHOLDS.risky THEN "High"
    ELSE "Very High"

\* DeFiYieldFinder._determine_risk_level
determine_risk_level(cfg, safety_score) ==
    IF safety_score >= cfg.SAFETY_SCORE_THRESHOLDS.very_safe THEN "Very Low"
    ELSE IF safety_score >= cfg.SAFETY_SCORE_THRESHOLDS.safe THEN "Low"
    ELSE IF safety_score >= cfg.SAFETY_SCORE_THRESHOLDS.moderate THEN "Medium"
    ELSE IF safety_score >= cfg.SAFETY_SCORE_THRESHOLDS.risky THEN "High"
    ELSE "Very High"

\* the loop that gives every fetched pool its safety_score and risk_level
ScoreAll(cfg, pools) ==
    [raised |-> \E i \in DOMAIN pools : calculate_safety_score(cfg, pools[i]).raised,
     pools |-> [i \in DOMAIN pools |->
                 LET total == calculate_safety_score(cfg, pools[i]).breakdown.total_score
                 IN  [pools[i] EXCEPT !.safety_score = total,
                                      !.risk_level = determine_risk_level(cfg, total)]]]

\* a sort key that leaves the APY out
CompositeMutantScoreOnly(p) == 30 * p.safety_score

\* the sort key p.apy * 0.7 + p.safety_score * 0.3, times 100 (apy is in tenths)
Composite(p) == 7 * p.apy + 30 * p.safety_score

\* one step of a sort that puts q before the elements it outranks and before
\* the elements of equal key: the order of ties is reversed
InsertDescMutantBeforeTies(sorted, q) ==
    LET k == Cardinality({i \in DOMAIN sorted : Composite(sorted[i]) > Composite(q)})
    IN  SubSeq(sorted, 1, k) \o <<q>> \o SubSeq(sorted, k + 1, Len(sorted))

\* one step of list.sort(key, reverse=True), which is stable: q goes after
\* every element whose key is greater than or equal to its own
InsertDesc(sorted, q) ==
    LET k == Cardinality({i \in DOMAIN sorted : Composite(sorted[i]) >= Composite(q)})
    IN  SubSeq(sorted, 1, k) \o <<q>> \o SubSeq(sorted, k + 1, Len(sorted))

RECURSIVE SortDesc(_)
\* safe_pools.sort(key=..., reverse=True)
SortDesc(pools) ==
    IF pools = <<>> THEN <<>>
    ELSE InsertDesc(SortDesc(SubSeq(pools, 1, Len(pools) - 1)), pools[Len(pools)])

RECURSIVE SumApy(_)
\* sum(p.apy for p in safe_pools)
SumApy(pools) ==
    IF pools = <<>> THEN 0 ELSE pools[1].apy + SumApy(Tail(pools))

\* the least APY in place of the greatest
MaxApyMutantMin(pools) ==
    CHOOSE a \in {pools[i].apy : i \in DOMAIN pools} :
        \A i \in DOMAIN pools : pools[i].apy >= a

\* max(p.apy for p in safe_pools)
MaxApy(pools) ==
    CHOOSE a \in {pools[i].apy : i \in DOMAIN pools} :
        \A i \in DOMAIN pools : pools[i].apy <= a

\* round(x, 2) of a value in tenths, in hundredths
Round2(x) == 10 * x

\* round(total / count, 2) of a total in tenths, in hundredths: the nearest
\* hundredth; the float that stands for a value half way between two
\* hundredths lies on either side of it, which half_up tells
Round2Div(total, count, half_up) ==
    LET q == (10 * total) \div count
        r == (10 * total) % count
    IN  IF 2 * r < count THEN q
        ELSE IF 2 * r > count THEN q + 1
        ELSE IF half_up THEN q + 1 ELSE q

\* round(x, 1) of a whole number, in tenths
Round1(x) == 10 * x

\* Pool.to_dict, without the fields the model of Pool leaves out
ToDict(p) ==
    [protocol |-> p.project, pool |-> p.symbol, apy |-> Round2(p.apy),
     tvl_usd |-> p.tvl_usd, safety_score |-> Round1(p.safety_score),
     risk_level |-> p.risk_level, pool_id |-> p.pool_id,
     base_apy |-> Round2(p.base_apy), reward_apy |-> Round2(p.reward_apy)]

\* an argument that is None or a number
None == [given |-> FALSE, value |-> 0]
Given(n) == [given |-> TRUE, value |-> n]

\* min_safety_score or self.config.MIN_SAFETY_SCORE
OrDefault(arg, default) ==
    IF arg.given /\ arg.value # 0 THEN arg.value ELSE default

\* a YieldFinderResult whose cache_hit is set whenever pools were analysed
ResultMutantReportsHit(raised, top, keys, total, found, highest, average, min_score, cfg, scored, safe_pools) ==
    [raised |-> raised, top_yields |-> top,
     summary |-> [keys |-> keys, total_pools_analyzed |-> total,
                  safe_pools_found |-> found, highest_safe_yield |-> highest,
                  average_safe_yield |-> average, min_safety_score_used |-> min_score,
                  chain |-> cfg.TARGET_CHAIN],
     warnings |-> cfg.WARNING_MESSAGES, cache_hit |-> total > 0,
     scored |-> scored, safe_pools |-> safe_pools, min_score |-> min_score]

\* a YieldFinderResult; keys are the keys the summary dictionary has, and
\* scored, safe_pools and min_score are the locals of the call, kept for the
\* properties
Result(raised, top, keys, total, found, highest, average, min_score, cfg, scored, safe_pools) ==
    [raised |-> raised, top_yields |-> top,
     summary |-> [keys |-> keys, total_pools_analyzed |-> total,
                  safe_pools_found |-> found, highest_safe_yield |-> highest,
                  average_safe_yield |-> average, min_safety_score_used |-> min_score,
                  chain |-> cfg.TARGET_CHAIN],
     warnings |-> cfg.WARNING_MESSAGES, cache_hit |-> FALSE,
     scored |-> scored, safe_pools |-> safe_pools, min_score |-> min_score]

\* the summary of the short-circuit result without its error field
ErrorKeysMutantNoError == {"total_pools_analyzed", "safe_pools_found",
                           "highest_safe_yield", "average_safe_yield"}

\* the keys of the summary of the short-circuit result (lines 210-216)
ErrorKeys == {"total_pools_analyzed", "safe_pools_found", "highest_safe_yield",
              "average_safe_yield", "error"}

\* the keys of the summary of a result built from fetched pools (lines 246-253)
SummaryKeys == {"total_pools_analyzed", "safe_pools_found", "highest_safe_yield",
                "average_safe_yield", "min_safety_score_used", "chain"}

\* get_safe_base_yields after the fetch: fetched is what fetch_base_yields
\* returned, fetch_raised whether it raised instead
RankPools(cfg, fetch_raised, fetched, min_safety_score, half_up) ==
    LET min_score == OrDefault(min_safety_score, cfg.MIN_SAFETY_SCORE)
        scored == ScoreAll(cfg, fetched)
        safe_pools == SortDesc(SelectSeq(scored.pools,
                                         LAMBDA q : q.safety_score >= min_score))
        count == IF cfg.MAX_RESULTS < Len(safe_pools) THEN cfg.MAX_RESULTS
                 ELSE Len(safe_pools)
        top_pools == SubSeq(safe_pools, 1, count)
    IN  IF fetch_raised
        THEN Result(TRUE, <<>>, {}, 0, 0, 0, 0, min_score, cfg, <<>>, <<>>)
        ELSE IF fetched = <<>>
        THEN Result(FALSE, <<>>, ErrorKeys, 0, 0, 0, 0, min_score, cfg, <<>>, <<>>)
        ELSE IF scored.raised
        THEN Result(TRUE, <<>>, {}, 0, 0, 0, 0, min_score, cfg, <<>>, <<>>)
        ELSE Result(FALSE, [i \in DOMAIN top_pools |-> ToDict(top_pools[i])],
                    SummaryKeys, Len(fetched), Len(safe_pools),
                    IF safe_pools = <<>> THEN 0 ELSE Round2(MaxApy(safe_pools)),
                    IF safe_pools = <<>> THEN 0
                    ELSE Round2Div(SumApy(safe_pools), Len(safe_pools), half_up),
                    min_score, cfg, scored.pools, safe_pools)

----------------------------------------------------------------------------
(* The scorer of one finder, while other finders are constructed *)

\* TVL in USD, on and around the tier thresholds
ScoreTvls == {-1, 0, 9999999, 10000000, 49999999, 50000000, 99999999, 100000000}

\* APY in tenths of a percent, on and around the band limits
ScoreApys == {-10, 49, 50, 299, 300, 499, 500, 999, 1000}

ScoreProjects == {"Aerodrome", "AERODROME", "Compound", "Unknown"}

\* the Pools the scorer is given, built as the fetcher builds them
ScorePools ==
    {FromApiData(RawRecord(Str("Base"), Str(project), Str("POOL"), Num(tvl), Num(apy),
                           Str("pool-id"))).pool :
        project \in ScoreProjects, tvl \in ScoreTvls, apy \in ScoreApys}

\* the custom_config dictionaries given to the finders constructed later
CustomConfigs ==
    {[MIN_SAFETY_SCORE |-> 70, MAX_RESULTS |-> 10],
     [PROTOCOL_SCORES |-> [tier1 |-> 40, tier2 |-> 20, tier3 |-> 10, unknown |-> 0]],
     [PROTOCOL_TIERS |-> [tier1 |-> DefaultConfig.PROTOCOL_TIERS.tier1,
                          tier2 |-> DefaultConfig.PROTOCOL_TIERS.tier2,
                          tier3 |-> {"unknown"}]]}

\* finder = DeFiYieldFinder(): the configuration is the default one
ScoreInit ==
    /\ now = 0
    /\ memory_cache = MemInit(0)
    /\ redis_cache = "none"
    /\ redis = [k \in Keys |-> NoRedisEntry]
    /\ lastOp = NoOp
    /\ opCount = 0
    /\ hist = [k \in Keys |-> NoHist]
    /\ memW = [k \in Keys |-> NoHist]
    /\ FinderIdle

\* finder.calculate_safety_score(pool)
ScoreCall ==
    /\ \E pool \in ScorePools :
        \E r \in {calculate_safety_score(config, pool)} :
            lastScore' = [called |-> TRUE, raised |-> r.raised, pool |-> pool,
                          pool_after |-> r.pool, breakdown |-> r.breakdown,
                          tables |-> PolicyTables(config),
                          repeated |-> lastScore.called /\ lastScore.pool = pool,
                          prev |-> IF lastScore.called /\ lastScore.pool = pool
                                   THEN lastScore.breakdown ELSE NoBreakdown]
    /\ UNCHANGED <<now, cacheVars, cacheHist, config, request_times,
                   upstream_requests, admitted, lastCall, callCount, written,
                   lastResult, threads>>

\* DeFiYieldFinder(custom_config) somewhere else in the process: its
\* constructor sets the attributes of the configuration object all finders share
ConstructFinder ==
    /\ \E custom \in CustomConfigs : config' = ApplyCustomConfig(config, custom)
    /\ UNCHANGED <<now, cacheVars, cacheHist, request_times, upstream_requests,
                   admitted, lastCall, callCount, written, lastScore, lastResult,
                   threads>>

ScoreNext ==
    \/ ScoreCall
    \/ ConstructFinder

SpecScore == ScoreInit /\ [][ScoreNext]_vars

----------------------------------------------------------------------------
(* One finder asked for safe yields, in the blocking and the suspending way *)

\* the records of mock_api_response, and a second Aerodrome pool with the
\* same figures
RecUni == RawRecord(Str("Base"), Str("Uniswap"), Str("ETH-USDC"),
                    Num(75000000), Num(423), Str("pool-2"))
RecScam == RawRecord(Str("Base"), Str("Unknown"), Str("SCAM-TOKEN"),
                     Num(500000), Num(2500), Str("pool-3"))
RecAeroTwin == RawRecord(Str("BASE"), Str("AERODROME"), Str("WETH-AERO"),
                         Num(150000000), Num(255), Str("pool-5"))

\* what the GET request comes to when safe yields are asked for
RankOutcomes ==
    {Failure("timeout"), Failure("request_exception"),
     Response(<<>>),
     Response(<<RecEth>>),
     Response(<<RecAero, RecUni, RecScam, RecComp>>),
     Response(<<RecComp, RecAeroTwin, RecEth, RecAero, RecUni>>),
     Response(<<RecComp, RecNullApy>>)}

\* the min_safety_score arguments
MinScoreArgs == {None, Given(0), Given(5), Given(60), Given(100)}

\* the MAX_RESULTS values the finder is constructed with
MaxResultsValues == {1, 3, 20}

\* the custom configurations of the finder: as the API handler gives them
\* (MAX_RESULTS, CACHE_ENABLED, REDIS_ENABLED: False), and one with the
\* remote tier, caching and the default MAX_RESULTS
RankConfigs ==
    {[enabled |-> e, remote |-> FALSE, max_results |-> m] :
        e \in BOOLEAN, m \in MaxResultsValues}
    \cup {[enabled |-> TRUE, remote |-> TRUE, max_results |-> DefaultConfig.MAX_RESULTS]}

\* DeFiYieldFinder(custom_config = {MAX_RESULTS, CACHE_ENABLED,
\* API_MAX_REQUESTS_PER_HOUR, REDIS_ENABLED [, REDIS_URL]})
RankInit ==
    /\ now = 0
    /\ \E c \in RankConfigs :
      LET enabled == c.enabled  remote == c.remote  max_results == c.max_results IN
        /\ config = ApplyCustomConfig(DefaultConfig,
                        [MAX_RESULTS |-> max_results,
                         CACHE_ENABLED |-> enabled,
                         API_MAX_REQUESTS_PER_HOUR |-> MaxRequestsPerHour,
                         REDIS_ENABLED |-> remote])
        /\ redis_cache = IF remote THEN "enabled" ELSE "none"
    /\ memory_cache = MemInit(0)
    /\ redis = [k \in Keys |-> NoRedisEntry]
    /\ lastOp = NoOp
    /\ opCount = 0
    /\ hist = [k \in Keys |-> NoHist]
    /\ memW = [k \in Keys |-> NoHist]
    /\ request_times = <<>>
    /\ upstream_requests = 0
    /\ admitted = <<>>
    /\ lastCall = NoCall
    /\ callCount = 0
    /\ written = NotWritten
    /\ lastScore = NoScore
    /\ lastResult = NoResult
    /\ threads = NoThreads

\* the effects of a call of get_safe_base_yields or get_safe_base_yields_async
\* whose fetch came to f and whose result is r
GetSafeEffects(op, arg, okGet, f, r, failed) ==
    /\ callCount < MaxCalls
    /\ memory_cache' = f.mc
    /\ redis' = f.store
    /\ request_times' = f.times
    /\ upstream_requests' = upstream_requests + (IF f.upstream_called THEN 1 ELSE 0)
    /\ admitted' = IF f.limiter_called /\ f.limiter_ret
                    THEN Append(admitted, now) ELSE admitted
    /\ lastCall' = [op |-> op, raised |-> r.raised, pools |-> f.pools,
                    cache_hit |-> f.cache_hit, entry |-> f.entry,
                    remote_ok |-> okGet,
                    limiter_called |-> f.limiter_called,
                    limiter_ret |-> f.limiter_ret,
                    upstream_called |-> f.upstream_called,
                    wrote |-> f.wrote, prior_store |-> written.at,
                    request_failed |-> f.upstream_called /\ failed]
    /\ written' = IF f.wrote
                   THEN [stored |-> TRUE, at |-> now,
                         value |-> f.mc.cache[CACHE_KEY].value,
                         returned |-> f.pools]
                   ELSE written
    /\ lastResult' = [op |-> op, arg |-> arg, fetched |-> f.pools, result |-> r]
    /\ callCount' = callCount + 1
    /\ UNCHANGED <<now, redis_cache, cacheHist, config, lastScore, threads>>

\* finder.get_safe_base_yields(min_safety_score)
GetSafe ==
    \E outcome \in RankOutcomes, arg \in MinScoreArgs, half_up \in BOOLEAN,
       okGet \in RemoteOutcomes(redis_cache), okSet \in RemoteOutcomes(redis_cache) :
        \E f \in {FetchBaseYields(config, memory_cache, redis, redis_cache,
                                  request_times, now, outcome, okGet, okSet)} :
            \E r \in {RankPools(config, f.raised, f.pools, arg, half_up)} :
                GetSafeEffects("get_safe_base_yields", arg, okGet, f, r,
                               outcome.kind # "ok")

\* await finder.get_safe_base_yields_async(min_safety_score)
GetSafeAsync ==
    \E outcome \in RankOutcomes, arg \in MinScoreArgs, half_up \in BOOLEAN,
       okGet \in RemoteOutcomes(redis_cache), okSet \in RemoteOutcomes(redis_cache) :
        \E f \in {FetchBaseYieldsAsync(config, memory_cache, redis, redis_cache,
                                       request_times, now, outcome, okGet, okSet)} :
            \E r \in {RankPools(config, f.raised, f.pools, arg, half_up)} :
                GetSafeEffects("get_safe_base_yields_async", arg, okGet, f, r,
                               outcome.kind # "ok")

RankNext ==
    \/ GetSafe
    \/ GetSafeAsync

SpecRank == RankInit /\ [][RankNext]_vars

----------------------------------------------------------------------------
(* The rate limiter of one finder called from two threads. A thread can be
   suspended between any two statements of _check_rate_limit, and between the
   evaluation of the list comprehension and its assignment *)

LimiterInit ==
    /\ now = 0
    /\ memory_cache = MemInit(0)
    /\ redis_cache = "none"
    /\ redis = [k \in Keys |-> NoRedisEntry]
    /\ lastOp = NoOp
    /\ opCount = 0
    /\ hist = [k \in Keys |-> NoHist]
    /\ memW = [k \in Keys |-> NoHist]
    /\ config = ApplyCustomConfig(DefaultConfig,
                    [API_MAX_REQUESTS_PER_HOUR |-> MaxRequestsPerHour])
    /\ request_times = <<>>
    /\ upstream_requests = 0
    /\ admitted = <<>>
    /\ lastCall = NoCall
    /\ callCount = 0
    /\ written = NotWritten
    /\ lastScore = NoScore
    /\ lastResult = NoResult
    /\ threads = NoThreads

\* what a step of the limiter leaves alone besides the variables it names
LimiterFrame ==
    UNCHANGED <<now, cacheVars, cacheHist, config, upstream_requests, written,
                lastScore, lastResult>>

\* current_time = time.time(); hour_ago = current_time - 3600
LimiterEnter(th) ==
    /\ threads[th].pc = "idle"
    /\ callCount < MaxCalls
    /\ threads' = [threads EXCEPT ![th] = [pc |-> "purge", current_time |-> now,
                                           kept |-> <<>>]]
    /\ callCount' = callCount + 1
    /\ UNCHANGED <<request_times, admitted, lastCall>>
    /\ LimiterFrame

\* [t for t in self._request_times if t > hour_ago], not yet assigned
LimiterPurge(th) ==
    /\ threads[th].pc = "purge"
    /\ threads' = [threads EXCEPT
                      ![th].pc = "assign",
                      ![th].kept = SelectSeq(request_times,
                                             LAMBDA x : x > threads[th].current_time - 3600)]
    /\ UNCHANGED <<request_times, admitted, lastCall, callCount>>
    /\ LimiterFrame

\* self._request_times = the list just built
LimiterAssign(th) ==
    /\ threads[th].pc = "assign"
    /\ request_times' = threads[th].kept
    /\ threads' = [threads EXCEPT ![th].pc = "test"]
    /\ UNCHANGED <<admitted, lastCall, callCount>>
    /\ LimiterFrame

\* if len(self._request_times) >= API_MAX_REQUESTS_PER_HOUR: return False
LimiterTest(th) ==
    /\ threads[th].pc = "test"
    /\ IF Len(request_times) >= config.API_MAX_REQUESTS_PER_HOUR
       THEN /\ threads' = [threads EXCEPT ![th] = ThreadIdle]
            /\ lastCall' = [NoCall EXCEPT !.op = "check_rate_limit",
                                          !.limiter_called = TRUE,
                                          !.limiter_ret = FALSE]
       ELSE /\ threads' = [threads EXCEPT ![th].pc = "append"]
            /\ UNCHANGED lastCall
    /\ UNCHANGED <<request_times, admitted, callCount>>
    /\ LimiterFrame

\* self._request_times.append(current_time); return True
LimiterAppend(th) ==
    /\ threads[th].pc = "append"
    /\ request_times' = Append(request_times, threads[th].current_time)
    /\ admitted' = Append(admitted, threads[th].current_time)
    /\ lastCall' = [NoCall EXCEPT !.op = "check_rate_limit",
                                  !.limiter_called = TRUE,
                                  !.limiter_ret = TRUE]
    /\ threads' = [threads EXCEPT ![th] = ThreadIdle]
    /\ UNCHANGED callCount
    /\ LimiterFrame

\* time passes, whatever the threads are doing
LimiterTick ==
    /\ \E t \in TimePoints : t > now /\ now' = t
    /\ UNCHANGED <<cacheVars, cacheHist, finderVars>>

LimiterNext ==
    \/ \E th \in Threads : LimiterEnter(th)
    \/ \E th \in Threads : LimiterPurge(th)
    \/ \E th \in Threads : LimiterAssign(th)
    \/ \E th \in Threads : LimiterTest(th)
    \/ \E th \in Threads : LimiterAppend(th)
    \/ LimiterTick

SpecLimiter == LimiterInit /\ [][LimiterNext]_vars

----------------------------------------------------------------------------
(* Properties of the cache *)

\* the step is a call of HybridCache.get
IsCacheGet == opCount' = opCount + 1 /\ lastOp'.op = "get"

\* C1 (as claimed), in the configurations where no remote call is made: after
\* set(k, v, ttl) at t0 and no later set, delete or clear touching k, a
\* get(k) at a time before t0 + ttl returns v and a get(k) at a time after
\* t0 + ttl returns absent.
C1_GetReturnsValueUntilTtl ==
    (redis_cache # "enabled" /\ lastOp.op = "get" /\ hist[lastOp.key].state = "set") =>
        LET h == hist[lastOp.key]
        IN  /\ (now < h.t0 + h.ttl => lastOp.ret = Hit(h.value))
            /\ (now > h.t0 + h.ttl => lastOp.ret = Absent)

\* C2: the local tier's get(k) returns the entry that InMemoryCache.set(k, v,
\* ttl) wrote at t0 if and only if now < t0 + ttl; an entry still held but
\* expired is not returned; a key never written, deleted or cleared is absent.
C2_LocalVisibleIffUnexpired ==
    [][IsCacheGet =>
        LET k == lastOp'.key
            w == memW[k]
            e == memory_cache.cache[k]
        IN  /\ w.state = "set" =>
                  /\ lastOp'.local.hit <=> now < w.t0 + w.ttl
                  /\ lastOp'.local.hit => lastOp'.local.value = w.value
            /\ w.state # "set" => ~lastOp'.local.hit
            /\ (e.present /\ now >= e.expires_at) => ~lastOp'.local.hit]_vars

\* C2's case: a set with ttl = 0 followed at once by a get, which finds nothing
C2_Witness_ZeroTtlAbsent ==
    /\ lastOp.op = "get"
    /\ memW[lastOp.key].state = "set"
    /\ memW[lastOp.key].ttl = 0
    /\ memW[lastOp.key].t0 = now
    /\ ~lastOp.local.hit
    /\ ~lastOp.ret.hit

\* what C3 says of a key that a delete or a clear touched last
GoneFromBothTiers(k) ==
    /\ ~LocalPresent(k)
    /\ ~RemotePresent(k)
    /\ (lastOp.op = "get" /\ lastOp.key = k) => ~lastOp.ret.hit

RemoteUnavailable == redis_cache # "enabled" \/ ~lastOp.remote_ok

\* C17: when the remote tier is absent, not enabled, or its call fails, get
\* returns exactly what the local tier returns for the key, and set, delete
\* and clear return a flag after doing their work on the local tier; the
\* failure of the remote call shows only in the flag.
C17_RemoteBestEffort ==
    (lastOp.op # "none" /\ RemoteUnavailable) =>
        /\ lastOp.op = "get" => lastOp.ret = lastOp.local
        /\ lastOp.op = "set" =>
              /\ LocalPresent(lastOp.key)
              /\ lastOp.flag = (redis_cache # "enabled")
        /\ lastOp.op = "delete" =>
              /\ ~LocalPresent(lastOp.key)
              /\ lastOp.flag = (lastOp.pre_local /\ redis_cache # "enabled")
        /\ lastOp.op = "clear" =>
              /\ \A k \in Keys : ~LocalPresent(k)
              /\ lastOp.flag = (redis_cache # "enabled")

\* C17's case: the remote tier holds the key, the call on it fails, and get
\* answers absent as the local tier does
C17_Witness_RemoteFailsGetAbsent ==
    /\ lastOp.op = "get"
    /\ redis_cache = "enabled"
    /\ ~lastOp.remote_ok
    /\ lastOp.pre_remote
    /\ ~lastOp.local.hit
    /\ ~lastOp.ret.hit

\* C18: delete and clear act on both tiers, the remote one also when the
\* local outcome is False, and return the conjunction of the local outcome
\* (delete: the key was in the local tier; clear: True) and the remote
\* outcome (delete: the call succeeded and removed the key; clear: the call
\* succeeded), a remote tier that is not in use counting as True.
C18_DeleteClearBothTiersFlagIsAnd ==
    /\ lastOp.op = "delete" =>
          /\ ~LocalPresent(lastOp.key)
          /\ (RedisUsed(redis_cache) /\ lastOp.remote_ok) => ~RemotePresent(lastOp.key)
          /\ lastOp.flag = (/\ lastOp.pre_local
                            /\ RedisUsed(redis_cache) => (lastOp.remote_ok /\ lastOp.pre_remote))
    /\ lastOp.op = "clear" =>
          /\ \A k \in Keys : ~LocalPresent(k)
          /\ (RedisUsed(redis_cache) /\ lastOp.remote_ok) => \A k \in Keys : ~RemotePresent(k)
          /\ lastOp.flag = (RedisUsed(redis_cache) => lastOp.remote_ok)

\* C18's case: the key is only in the remote tier, so the local outcome is
\* False; the remote tier is still asked to delete it and does
C18_Witness_RemoteDeletedAfterLocalMiss ==
    /\ lastOp.op = "delete"
    /\ ~lastOp.pre_local
    /\ lastOp.pre_remote
    /\ lastOp.remote_ok
    /\ ~RemotePresent(lastOp.key)
    /\ ~lastOp.flag

----------------------------------------------------------------------------
(* Properties of the rate limiter and the fetcher *)

\* the number of admitted calls in the rolling window that ends at t, (t - 3600, t]
AdmittedInWindowEndingAt(t) ==
    Cardinality({i \in DOMAIN admitted : admitted[i] > t - 3600 /\ admitted[i] <= t})

\* the number of admitted calls in the rolling window that starts at t, [t, t + 3600)
AdmittedInWindowStartingAt(t) ==
    Cardinality({i \in DOMAIN admitted : admitted[i] >= t /\ admitted[i] < t + 3600})

\* C4: in sequential use at non-decreasing times, every rolling window of
\* 3600 seconds (half-open: an instant and the instant 3600 s later are not in
\* one window) holds at most API_MAX_REQUESTS_PER_HOUR calls that returned
\* True; a call returns False exactly when the window ending at the call
\* already holds that many admitted calls, and True again once enough of them
\* have aged out.
C4_RateLimitWindow ==
    /\ \A i \in DOMAIN admitted :
          /\ AdmittedInWindowEndingAt(admitted[i]) <= config.API_MAX_REQUESTS_PER_HOUR
          /\ AdmittedInWindowStartingAt(admitted[i]) <= config.API_MAX_REQUESTS_PER_HOUR
    /\ \A t \in TimePoints :
          AdmittedInWindowEndingAt(t) <= config.API_MAX_REQUESTS_PER_HOUR
    /\ lastCall.limiter_called =>
          IF lastCall.limiter_ret
          THEN AdmittedInWindowEndingAt(now) - 1 < config.API_MAX_REQUESTS_PER_HOUR
          ELSE AdmittedInWindowEndingAt(now) >= config.API_MAX_REQUESTS_PER_HOUR

\* C4's case: the limit was reached, the recorded calls aged out, and a call
\* is admitted again
C4_Witness_AdmittedAgainAfterAging ==
    /\ Len(admitted) > config.API_MAX_REQUESTS_PER_HOUR
    /\ lastCall.limiter_called
    /\ lastCall.limiter_ret
    /\ Len(request_times) < Len(admitted)

\* C5 (as claimed): fetch_base_yields never raises to its caller, whatever the
\* cache holds, whatever the rate limiter recorded and whatever the upstream
\* request comes to.
C5_FetchNeverRaises ==
    lastCall.op = "fetch" => ~lastCall.raised

\* the step is a call of fetch_base_yields
IsFetch == callCount' = callCount + 1 /\ lastCall'.op = "fetch"

\* the local tier holds an unexpired entry for the chain key
LocalUnexpired ==
    /\ memory_cache.cache[CACHE_KEY].present
    /\ now < memory_cache.cache[CACHE_KEY].expires_at

\* the entry the cache holds for the chain key: the local one first
HeldEntry ==
    IF LocalUnexpired THEN memory_cache.cache[CACHE_KEY].value
    ELSE JsonLoads(redis[CACHE_KEY].text)

\* C6: when caching is enabled and the cache holds an unexpired entry for the
\* chain key (in the local tier, or in the remote tier and the remote get
\* succeeds), a fetch is served from that entry: it does not call the rate
\* limiter, _request_times is unchanged, no upstream request is issued, and
\* what it returns is the list of Pools built from the entry.
C6_CacheHitSkipsLimiterAndUpstream ==
    [][(/\ IsFetch
        /\ config.CACHE_ENABLED
        /\ \/ LocalUnexpired
           \/ RedisUsed(redis_cache) /\ RemotePresent(CACHE_KEY) /\ lastCall'.remote_ok)
       => /\ lastCall'.cache_hit
          /\ lastCall'.entry = HeldEntry
          /\ ~lastCall'.limiter_called
          /\ ~lastCall'.upstream_called
          /\ request_times' = request_times
          /\ upstream_requests' = upstream_requests
          /\ admitted' = admitted
          /\ ~lastCall'.raised => lastCall'.pools = FromApiList(HeldEntry).pools]_vars

\* C6's case: a fetch served from the cache after an upstream request was made
C6_Witness_ServedFromCache ==
    /\ lastCall.op = "fetch"
    /\ lastCall.cache_hit
    /\ ~lastCall.raised
    /\ Len(lastCall.pools) > 0
    /\ upstream_requests = 1
    /\ Len(request_times) = 1

\* C7 (as claimed), in the default configuration without a remote tier: after
\* a fetch that stored a non-empty list with CACHE_DURATION, every later
\* fetch made within CACHE_DURATION seconds calls neither the rate limiter
\* nor the upstream API.
C7_NoUpstreamWithinCacheDuration ==
    (/\ lastCall.op = "fetch"
     /\ config.CACHE_ENABLED
     /\ redis_cache = "none"
     /\ lastCall.prior_store >= 0
     /\ now < lastCall.prior_store + config.CACHE_DURATION)
    => (~lastCall.limiter_called /\ ~lastCall.upstream_called)

\* C8 (as claimed): a fetch served from the cache returns the same sequence
\* of Pools as the fetch that wrote the cache entry returned to its caller.
C8_CacheServedEqualsWriter ==
    (/\ lastCall.op = "fetch"
     /\ lastCall.cache_hit
     /\ written.stored
     /\ lastCall.entry = written.value)
    => (~lastCall.raised /\ lastCall.pools = written.returned)

----------------------------------------------------------------------------
(* Properties of the scorer *)

\* C9: for every Pool, the total_score of the breakdown calculate_safety_score
\* returns is the sum of its five sub-scores, and it lies in 0..100 when the
\* scoring tables are the default ones.
C9_TotalIsSumWithinRange ==
    (lastScore.called /\ ~lastScore.raised) =>
        /\ lastScore.breakdown.total_score =
               lastScore.breakdown.tvl_score + lastScore.breakdown.protocol_score
             + lastScore.breakdown.yield_score + lastScore.breakdown.stability_score
             + lastScore.breakdown.liquidity_score
        /\ lastScore.tables = PolicyTables(DefaultConfig) =>
               (0 <= lastScore.breakdown.total_score
                /\ lastScore.breakdown.total_score <= 100)

\* C9's case: a pool in the top tier of every table scores the full 100
C9_Witness_FullScore ==
    /\ lastScore.called
    /\ lastScore.tables = PolicyTables(DefaultConfig)
    /\ lastScore.breakdown.liquidity_score = 10
    /\ lastScore.breakdown.total_score = 100

\* C10 (as claimed): two calls of calculate_safety_score with Pools of
\* identical field values return identical breakdowns, whatever happened
\* between the two calls.
C10_IdenticalFieldsIdenticalBreakdown ==
    (lastScore.called /\ lastScore.repeated) => lastScore.breakdown = lastScore.prev

\* the last call scored a pool under the default tables
ScoredByDefault ==
    /\ lastScore.called
    /\ ~lastScore.raised
    /\ lastScore.tables = PolicyTables(DefaultConfig)

\* C19: under the default tables yield_score is 20 for 5 <= APY < 30, 10 for
\* 30 <= APY < 50, 5 for 50 <= APY < 100 and 0 for APY >= 100 and for
\* APY < 5; each limit belongs to the band it starts.
C19_YieldScoreHalfOpenBands ==
    ScoredByDefault =>
        LET apy == lastScore.pool.apy
        IN  lastScore.breakdown.yield_score =
                IF apy < 5 * Pct THEN 0
                ELSE IF apy < 30 * Pct THEN 20
                ELSE IF apy < 50 * Pct THEN 10
                ELSE IF apy < 100 * Pct THEN 5
                ELSE 0

\* C19's case: an APY of exactly 30 scores 10
C19_Witness_ApyThirty ==
    /\ ScoredByDefault
    /\ lastScore.pool.apy = 30 * Pct
    /\ lastScore.breakdown.yield_score = 10

\* C20: under the default tables tvl_score is 30, 20, 10 for a TVL of at
\* least 100M, 50M, 10M and 0 below; stability_score is 15, 10 for at least
\* 50M, 10M and 5 below; liquidity_score is 10, 7 for at least 100M, 50M and
\* 3 below; a TVL equal to a threshold is in the higher tier.
C20_TvlDerivedScores ==
    ScoredByDefault =>
        LET tvl == lastScore.pool.tvl_usd
            b == lastScore.breakdown
        IN  /\ b.tvl_score = IF tvl >= 100000000 THEN 30
                             ELSE IF tvl >= 50000000 THEN 20
                             ELSE IF tvl >= 10000000 THEN 10
                             ELSE 0
            /\ b.stability_score = IF tvl >= 50000000 THEN 15
                                   ELSE IF tvl >= 10000000 THEN 10
                                   ELSE 5
            /\ b.liquidity_score = IF tvl >= 100000000 THEN 10
                                   ELSE IF tvl >= 50000000 THEN 7
                                   ELSE 3

\* C20's case: a TVL of exactly 50M is in the 50M tier of all three scores
C20_Witness_TvlOnThreshold ==
    /\ ScoredByDefault
    /\ lastScore.pool.tvl_usd = 50000000
    /\ lastScore.breakdown.tvl_score = 20
    /\ lastScore.breakdown.stability_score = 15
    /\ lastScore.breakdown.liquidity_score = 7

\* the lower-case spelling of the project names the scorer is given
Folded(project) ==
    IF project \in {"Aerodrome", "AERODROME"} THEN "aerodrome"
    ELSE IF project = "Compound" THEN "compound"
    ELSE "unknown"

\* C21: with the default protocol scores, protocol_score is 25 when the
\* project name, compared without regard to case, is in the tier-1 set, else
\* 20 when it is in the tier-2 set, else 10 when it is in the tier-3 set,
\* else 0; names that differ only in case get the same score.
C21_ProtocolScoreByTierIgnoringCase ==
    (/\ lastScore.called
     /\ ~lastScore.raised
     /\ lastScore.tables.PROTOCOL_SCORES = DefaultConfig.PROTOCOL_SCORES) =>
        LET name == Folded(lastScore.pool.project.s)
            tiers == lastScore.tables.PROTOCOL_TIERS
        IN  lastScore.breakdown.protocol_score =
                IF name \in tiers.tier1 THEN 25
                ELSE IF name \in tiers.tier2 THEN 20
                ELSE IF name \in tiers.tier3 THEN 10
                ELSE 0

\* C21's case: a tier-1 name in capitals scores 25
C21_Witness_CapitalsTierOne ==
    /\ lastScore.called
    /\ lastScore.tables.PROTOCOL_SCORES = DefaultConfig.PROTOCOL_SCORES
    /\ lastScore.pool.project.s = "AERODROME"
    /\ lastScore.breakdown.protocol_score = 25

----------------------------------------------------------------------------
(* Properties of get_safe_base_yields *)

\* the last call returned a result built from at least one fetched pool
Ranked ==
    /\ lastResult.op # "none"
    /\ ~lastResult.result.raised
    /\ lastResult.fetched # <<>>

\* the sort key of an entry of top_yields, from its rounded apy and score
ViewComposite(v) == 7 * v.apy + 30 * v.safety_score

\* the place a ranked entry had in the list the fetch returned
FetchIndex(v) ==
    CHOOSE k \in DOMAIN lastResult.fetched : lastResult.fetched[k].pool_id = v.pool_id

\* C11: the ranked list of get_safe_base_yields has at most MAX_RESULTS
\* entries, every entry is a fetched pool with safety_score >= the minimum
\* score the call filters with, the entries are in non-increasing order of
\* 0.7 * apy + 0.3 * safety_score, and entries of equal metric are in the
\* order the fetch returned them.
C11_RankedListBoundedFilteredSorted ==
    Ranked =>
        LET top == lastResult.result.top_yields
        IN  /\ Len(top) <= config.MAX_RESULTS
            /\ \A i \in DOMAIN top :
                  /\ top[i].safety_score >= Round1(lastResult.result.min_score)
                  /\ \E k \in DOMAIN lastResult.fetched :
                        lastResult.fetched[k].pool_id = top[i].pool_id
            /\ \A i, j \in DOMAIN top :
                  i < j => /\ ViewComposite(top[i]) >= ViewComposite(top[j])
                           /\ ViewComposite(top[i]) = ViewComposite(top[j])
                                 => FetchIndex(top[i]) < FetchIndex(top[j])

\* C11's case: a truncated list of three in which two entries tie, while a
\* pool of lower metric was fetched before them
C11_Witness_TruncatedWithTie ==
    /\ Ranked
    /\ Len(lastResult.result.top_yields) = 3
    /\ lastResult.result.summary.safe_pools_found = 4
    /\ ViewComposite(lastResult.result.top_yields[2])
         = ViewComposite(lastResult.result.top_yields[3])
    /\ FetchIndex(lastResult.result.top_yields[1])
         > FetchIndex(lastResult.result.top_yields[3])

\* the number of fetched pools whose safety score is at least min
ScoredAtLeast(min) ==
    Cardinality({k \in DOMAIN lastResult.result.scored :
                    lastResult.result.scored[k].safety_score >= min})

\* C12 (as claimed): for every supplied min_safety_score in 0..100, 0
\* included, get_safe_base_yields filters with that value: safe_pools_found is
\* the number of fetched pools that score at least the supplied value, and
\* min_safety_score_used is the supplied value.
C12_FiltersWithSuppliedMinimum ==
    (Ranked /\ lastResult.arg.given) =>
        /\ lastResult.result.summary.safe_pools_found = ScoredAtLeast(lastResult.arg.value)
        /\ lastResult.result.summary.min_safety_score_used = lastResult.arg.value

\* the fetched pools that pass the filter of the last call
Filtered ==
    {k \in DOMAIN lastResult.result.scored :
        lastResult.result.scored[k].safety_score >= lastResult.result.min_score}

ScenarioPools == FromApiList(<<RecAero, RecUni, RecScam, RecComp>>).pools

\* the last call ranked the four pools with min_safety_score = 60 under the
\* default tables and the default MAX_RESULTS
ScenarioRanked ==
    /\ Ranked
    /\ lastResult.fetched = ScenarioPools
    /\ lastResult.arg = Given(60)
    /\ PolicyTables(config) = PolicyTables(DefaultConfig)
    /\ config.MAX_RESULTS = DefaultConfig.MAX_RESULTS

\* the safety scores of the fetched pools, in fetch order
ScoresOf(r) == [k \in DOMAIN r.scored |-> r.scored[k].safety_score]

\* the protocols of the ranked entries, in rank order
ProtocolsOf(r) == [i \in DOMAIN r.top_yields |-> r.top_yields[i].protocol.s]

\* C15 (as claimed): in scenario 1 the scores are Aerodrome 100, Uniswap 52,
\* Unknown 8, Compound 63; the safe set is Aerodrome and Compound with
\* Aerodrome first, safe_pools_found = 2 and total_pools_analyzed = 4.
C15_ScenarioAsClaimed ==
    ScenarioRanked =>
        /\ ScoresOf(lastResult.result) = <<100, 52, 8, 63>>
        /\ ProtocolsOf(lastResult.result) = <<"Aerodrome", "Compound">>
        /\ lastResult.result.summary.safe_pools_found = 2
        /\ lastResult.result.summary.total_pools_analyzed = 4

\* C15 (amended): in scenario 1 the scores are Aerodrome 100, Uniswap 77
\* (Uniswap is a tier-1 protocol: 20 + 25 + 10 + 15 + 7), Unknown 8, Compound
\* 63; the safe set is Uniswap, Aerodrome, Compound, ranked in this order,
\* safe_pools_found = 3 and total_pools_analyzed = 4.
C15_ScenarioUniswapTier1 ==
    ScenarioRanked =>
        /\ ScoresOf(lastResult.result) = <<100, 77, 8, 63>>
        /\ ProtocolsOf(lastResult.result) = <<"Uniswap", "Aerodrome", "Compound">>
        /\ lastResult.result.summary.safe_pools_found = 3
        /\ lastResult.result.summary.total_pools_analyzed = 4

\* C15's case: scenario 1 was run, through the upstream request
C15_Witness_ScenarioRun ==
    /\ ScenarioRanked
    /\ lastCall.upstream_called
    /\ Len(lastResult.result.top_yields) = 3

C22_RiskLevelFollowsScore ==
    LET level(score) == IF score >= 80 THEN "Very Low"
                        ELSE IF score >= 60 THEN "Low"
                        ELSE IF score >= 40 THEN "Medium"
                        ELSE IF score >= 20 THEN "High"
                        ELSE "Very High"
    IN  /\ \A score \in 0..100 : determine_risk_level(config, score) = level(score)
        /\ Ranked =>
              /\ \A i \in DOMAIN lastResult.result.top_yields :
                    LET v == lastResult.result.top_yields[i]
                    IN  \E score \in 0..100 : /\ v.safety_score = Round1(score)
                                              /\ v.risk_level = level(score)
              /\ \A i \in DOMAIN lastResult.result.scored :
                    LET q == lastResult.result.scored[i]
                    IN  q.safety_score \in 0..100 /\ q.risk_level = level(q.safety_score)

\* C22's case: a result that lists a Very Low, a Low and a Very High pool
C22_Witness_ThreeLevelsListed ==
    /\ Ranked
    /\ {lastResult.result.top_yields[i].risk_level
            : i \in DOMAIN lastResult.result.top_yields}
         = {"Very Low", "Low", "Very High"}

LimiterStep == callCount' = callCount + 1 /\ lastCall'.limiter_called

\* C24 (as claimed): a call of the limiter first discards the recorded
\* timestamps older than now - 3600 s, then tests the number of those that
\* remain against max_per_hour; a call that returns true appends one
\* timestamp equal to now, a call that returns false appends nothing.
C24_DiscardsOlderThanAnHour ==
    [][LimiterStep =>
        LET remaining == SelectSeq(request_times, LAMBDA x : x >= now - 3600)
        IN  /\ lastCall'.limiter_ret
                  = (Len(remaining) < config.API_MAX_REQUESTS_PER_HOUR)
            /\ request_times' = IF lastCall'.limiter_ret
                                  THEN Append(remaining, now) ELSE remaining]_vars

\* C24 (amended): the timestamps discarded are those 3600 s old or older;
\* the rest is as claimed.
C24_DiscardsAnHourOldOrOlder ==
    [][LimiterStep =>
        LET remaining == SelectSeq(request_times, LAMBDA x : x > now - 3600)
        IN  /\ lastCall'.limiter_ret
                  = (Len(remaining) < config.API_MAX_REQUESTS_PER_HOUR)
            /\ request_times' = IF lastCall'.limiter_ret
                                  THEN Append(remaining, now) ELSE remaining]_vars

\* C24's case: with the limit used up by calls at time 0, a call at time
\* 3600 discards their timestamps, returns true and records 3600 alone
C24_Witness_AdmittedOnTheHour ==
    /\ lastCall.limiter_called
    /\ lastCall.limiter_ret
    /\ Len(admitted) = config.API_MAX_REQUESTS_PER_HOUR + 1
    /\ \A i \in 1..config.API_MAX_REQUESTS_PER_HOUR : admitted[i] = 0
    /\ request_times = <<3600>>

\* a call of get_safe_base_yields (either variant) that misses the cache, or
\* does not use it, while the limiter holds max_per_hour timestamps of the
\* last 3600 s
ThrottledStep ==
    /\ callCount' = callCount + 1
    /\ ~lastCall'.cache_hit
    /\ Len(SelectSeq(request_times, LAMBDA x : x > now - 3600))
         >= config.API_MAX_REQUESTS_PER_HOUR

\* the result of get_safe_base_yields when the upstream request times out
TransportFailureResult(arg) ==
    LET f == FetchFromUpstream(config, memory_cache, redis, redis_cache, <<>>, now,
                               Failure("timeout"), TRUE)
    IN  RankPools(config, f.raised, f.pools, arg, TRUE)

\* C25: when the fetch misses the cache (or caching is disabled) and the
\* limiter returns false, the fetch returns no pools and raises nothing, no
\* upstream request is issued, nothing is written to the cache, and
\* get_safe_base_yields returns what it returns for a transport failure.
C25_ThrottledFetchIsAQuietFailure ==
    [][ThrottledStep =>
        /\ lastCall'.limiter_called /\ ~lastCall'.limiter_ret
        /\ lastCall'.pools = <<>>
        /\ ~lastCall'.raised
        /\ upstream_requests' = upstream_requests
        /\ redis' = redis
        /\ \A k \in Keys : memory_cache'.cache[k] \in {memory_cache.cache[k], NoEntry}
        /\ written' = written
        /\ lastResult'.result = TransportFailureResult(lastResult'.arg)
        /\ "error" \in lastResult'.result.summary.keys]_vars

\* C25's case: the limit was used up by upstream requests and the next call
\* was refused without a request
C25_Witness_RefusedWithoutRequest ==
    /\ lastResult.op # "none"
    /\ lastCall.limiter_called
    /\ ~lastCall.limiter_ret
    /\ ~lastCall.upstream_called
    /\ upstream_requests = config.API_MAX_REQUESTS_PER_HOUR
    /\ Len(request_times) = config.API_MAX_REQUESTS_PER_HOUR

\* what the cache holds at time t: for every key, the value of the unexpired
\* local entry, else the value the remote tier holds, else nothing
Contents(mc, store, t) ==
    [k \in Keys |->
        IF mc.cache[k].present /\ t < mc.cache[k].expires_at
        THEN Hit(mc.cache[k].value)
        ELSE IF RedisHolds(store, k, t) THEN Hit(JsonLoads(store[k].text))
        ELSE Absent]

----------------------------------------------------------------------------
(* Properties of the two tiers of the cache *)

\* C27: every entry the HybridCache writes to the local tier expires at most
\* 300 s after it was written, and 60 s after a back-fill from the remote
\* tier; so a value the remote tier no longer holds is returned by get only
\* from a local entry written, by a set or a back-fill, less than 300 s ago.
C27_LocalEntriesShortLived ==
    /\ \A k \in Keys :
          memory_cache.cache[k].present =>
              memory_cache.cache[k].expires_at <= memory_cache.cache[k].created_at + 300
    /\ (lastOp.op = "get" /\ ~lastOp.local.hit /\ lastOp.ret.hit) =>
          /\ memory_cache.cache[lastOp.key].present
          /\ memory_cache.cache[lastOp.key].created_at = now
          /\ memory_cache.cache[lastOp.key].expires_at = now + 60
    /\ (/\ redis_cache = "enabled"
        /\ lastOp.op = "get"
        /\ lastOp.ret.hit
        /\ ~RemotePresent(lastOp.key)) =>
          /\ lastOp.local.hit
          /\ lastOp.ret.value = memory_cache.cache[lastOp.key].value
          /\ memW[lastOp.key].state = "set"
          /\ memW[lastOp.key].t0 = memory_cache.cache[lastOp.key].created_at
          /\ now < memW[lastOp.key].t0 + 300

\* C27's case: a get returns, from a back-filled local entry, a value whose
\* remote TTL has passed
C27_Witness_ServedAfterRemoteExpiry ==
    /\ redis_cache = "enabled"
    /\ lastOp.op = "get"
    /\ lastOp.ret.hit
    /\ ~RemotePresent(lastOp.key)
    /\ hist[lastOp.key].state = "set"
    /\ now >= hist[lastOp.key].t0 + hist[lastOp.key].ttl
    /\ memW[lastOp.key].ttl = 60

\* C28: HybridCache.get asks the local tier first and the remote tier only
\* when the local tier misses and a remote tier is configured and enabled; on
\* a remote hit it returns the remote value and writes it to the local tier
\* with a TTL of 60 s; a get of a key whose local entry is unexpired is
\* answered from the local tier without a remote query.
C28_LocalFirstThenRemoteWithBackfill ==
    [][IsCacheGet =>
        LET k == lastOp'.key
        IN  /\ lastOp'.remote_queried
                  = (~lastOp'.local.hit /\ redis_cache = "enabled")
            /\ lastOp'.local.hit => lastOp'.ret = lastOp'.local
            /\ (lastOp'.remote_queried /\ lastOp'.remote_ok /\ RemotePresent(k)
                  /\ JsonLoads(redis[k].text) # <<>>) =>
                  lastOp'.ret = Hit(JsonLoads(redis[k].text))
            /\ (lastOp'.remote_queried /\ lastOp'.ret.hit) =>
                  memory_cache'.cache[k] = Entry(lastOp'.ret.value, now + 60, now)
            /\ (memW[k].state = "set" /\ now < memW[k].t0 + memW[k].ttl) =>
                  /\ lastOp'.local.hit
                  /\ ~lastOp'.remote_queried
                  /\ lastOp'.ret = Hit(memW[k].value)]_vars

\* C28's case: a get repeated after the get that back-filled the local tier
\* from the remote one
C28_Witness_RepeatAnsweredLocally ==
    /\ redis_cache = "enabled"
    /\ lastOp.op = "get"
    /\ lastOp.local.hit
    /\ ~lastOp.remote_queried
    /\ hist[lastOp.key].state = "set"
    /\ hist[lastOp.key].ttl = 3600
    /\ memW[lastOp.key].ttl = 60
    /\ now < memW[lastOp.key].t0 + 60

----------------------------------------------------------------------------
(* Properties of one fetch invocation *)

\* the cache lookup of the step finds an entry for the chain key
LookupFinds(remote_ok) ==
    \/ LocalUnexpired /\ memory_cache.cache[CACHE_KEY].value # <<>>
    \/ /\ ~LocalUnexpired
       /\ redis_cache = "enabled"
       /\ remote_ok
       /\ RemotePresent(CACHE_KEY)
       /\ JsonLoads(redis[CACHE_KEY].text) # <<>>

\* C29: in both variants one fetch invocation calls the limiter at most once
\* and issues at most one upstream request, and the request is issued only
\* after the cache lookup missed (or caching is disabled) and the limiter
\* returned true in the same invocation.
C29_OneLimiterCallOneRequest ==
    [][callCount' = callCount + 1 =>
        LET kept == SelectSeq(request_times, LAMBDA x : x > now - 3600)
            sent == upstream_requests' - upstream_requests
        IN  /\ sent \in {0, 1}
            /\ request_times' \in {request_times, kept, Append(kept, now)}
            /\ admitted' \in {admitted, Append(admitted, now)}
            /\ sent = 1 =>
                  /\ ~(config.CACHE_ENABLED /\ LookupFinds(lastCall'.remote_ok))
                  /\ Len(kept) < config.API_MAX_REQUESTS_PER_HOUR
                  /\ request_times' = Append(kept, now)
                  /\ admitted' = Append(admitted, now)]_vars

\* C29's case: two invocations, the second the suspending one, made two
\* requests and recorded two timestamps
C29_Witness_SecondInvocationSecondRequest ==
    /\ lastCall.op = "get_safe_base_yields_async"
    /\ lastCall.upstream_called
    /\ callCount = 2
    /\ upstream_requests = 2
    /\ Len(request_times) = 2

----------------------------------------------------------------------------
(* Properties of the rate limiter under concurrent calls *)

\* C30 (as claimed): with calls of the limiter from several threads
\* interleaved between its purge, its test and its append, every rolling
\* window of 3600 s still holds at most max_per_hour calls that returned
\* true, and every timestamp an admitted call recorded in the last 3600 s is
\* still in _request_times.
C30_ConcurrentLimiterKeepsBound ==
    /\ \A i \in DOMAIN admitted :
          /\ AdmittedInWindowEndingAt(admitted[i]) <= config.API_MAX_REQUESTS_PER_HOUR
          /\ AdmittedInWindowStartingAt(admitted[i]) <= config.API_MAX_REQUESTS_PER_HOUR
    /\ Cardinality({i \in DOMAIN admitted : admitted[i] > now - 3600})
         <= Cardinality({i \in DOMAIN request_times : request_times[i] > now - 3600})

----------------------------------------------------------------------------
(* Properties of the configuration *)

\* C31 (as claimed): the configuration of a finder is fixed once it is
\* constructed: the construction of another finder with a custom_config
\* changes no value of the configuration the first finder sees, and a finder
\* constructed later without custom_config would see the defaults.
C31_ConfigFixedAfterConstruction ==
    [][config' = config /\ config' = DefaultConfig]_vars

----------------------------------------------------------------------------
(* Further properties of get_safe_base_yields *)

\* C32: every result get_safe_base_yields and get_safe_base_yields_async
\* return has cache_hit = false, the results whose pools came from the cache
\* included.
C32_ResultNeverReportsCacheHit ==
    (lastResult.op # "none" /\ ~lastResult.result.raised) =>
        lastResult.result.cache_hit = FALSE

\* C32's case: the pools of a ranked result came from the cache
C32_Witness_RankedFromCache ==
    /\ Ranked
    /\ lastCall.cache_hit
    /\ lastResult.result.top_yields # <<>>
    /\ lastResult.result.cache_hit = FALSE

----------------------------------------------------------------------------
(* Further properties of the rate limiter and the fetcher *)

StorableList(value) ==
    /\ value # <<>>
    /\ \A i \in DOMAIN value :
          value[i].chain.k = "str" /\ value[i].chain.s \in {"Base", "BASE", "base"}

\* C34: in every reachable state the value stored under the chain key, in
\* either tier, is a non-empty list of records whose chain is the target
\* chain but for case; so a fetch served from the cache never returns an
\* empty sequence and its result is never the error short-circuit.
C34_StoredListNonEmptyOfTargetChain ==
    /\ config.TARGET_CHAIN = "Base"
    /\ memory_cache.cache[CACHE_KEY].present =>
          StorableList(memory_cache.cache[CACHE_KEY].value)
    /\ redis[CACHE_KEY].present => StorableList(JsonLoads(redis[CACHE_KEY].text))
    /\ (lastCall.cache_hit /\ ~lastCall.raised) =>
          /\ lastCall.pools # <<>>
          /\ Len(lastCall.pools) = Len(lastCall.entry)
          /\ "error" \notin lastResult.result.summary.keys
          /\ lastResult.result.summary.total_pools_analyzed = Len(lastCall.entry)

\* C34's case: a call served from a stored list that the filter had cut down
\* from five upstream records to four
C34_Witness_ServedFilteredList ==
    /\ lastCall.cache_hit
    /\ ~lastCall.raised
    /\ Len(lastCall.entry) = 4
    /\ \E i \in DOMAIN lastCall.entry : lastCall.entry[i].chain.s = "BASE"
    /\ lastResult.result.summary.total_pools_analyzed = 4

----------------------------------------------------------------------------
(* Properties of HybridCache.set *)

\* the step is a call of HybridCache.set
IsCacheSet == opCount' = opCount + 1 /\ lastOp'.op = "set"

\* C35: HybridCache.set returns true only if the local write was made and,
\* with a remote tier configured and enabled, the remote tier holds the value
\* with the TTL given; the local tier is written also when set returns false,
\* and a get(k) before min(ttl, 300) s have passed returns the value whose
\* set returned false.
C35_SetFlagAndLocalWrite ==
    [][/\ IsCacheSet =>
             LET k == lastOp'.key
                 value == hist'[k].value
                 ttl == hist'[k].ttl
             IN  /\ memory_cache'.cache[k] = Entry(value, now + Min(ttl, 300), now)
                 /\ lastOp'.flag =>
                       (redis_cache = "enabled" =>
                           redis'[k] = RedisEntry(JsonDumps(value), now + ttl))
                 /\ redis_cache # "enabled" => lastOp'.flag
       /\ (/\ IsCacheGet
           /\ memW[lastOp'.key].state = "set"
           /\ ~memW[lastOp'.key].clean
           /\ now < memW[lastOp'.key].t0 + memW[lastOp'.key].ttl) =>
             lastOp'.ret = Hit(memW[lastOp'.key].value)]_vars

\* C35's case: a set whose remote write failed returned false, time passed,
\* and a get returned the value from the local tier
C35_Witness_ReadAfterFailedSet ==
    /\ redis_cache = "enabled"
    /\ lastOp.op = "get"
    /\ lastOp.ret.hit
    /\ memW[lastOp.key].state = "set"
    /\ ~memW[lastOp.key].clean
    /\ lastOp.ret.value = memW[lastOp.key].value
    /\ now > memW[lastOp.key].t0
    /\ ~RemotePresent(lastOp.key)

====
